---- MODULE Spec2Model ----
(***************************************************************************)
(* Agent discovery registry of packages/core/src/services/agentManager.ts. *)
(*                                                                         *)
(* A definition file is modelled as the sequence of its lines (the text    *)
(* split at "\n"); a YAML value is a record with one field named after     *)
(* its JavaScript type; an AgentMetadata is a record whose optional fields *)
(* are present in its DOMAIN exactly when the code assigns them.           *)
(***************************************************************************)
EXTENDS Integers, Sequences, FiniteSets, TLC

(***************************************************************************)
(* Bounds of the model.                                                    *)
(***************************************************************************)
\* files that one directory listing returns at most
MaxFiles == 2
\* discoverAgents() calls started in one behaviour at most
MaxDiscover == 2
\* activity events the engine emits in one run at most
MaxEvents == 2
\* confirmation requests published on the bus in one behaviour at most
MaxRequests == 2
\* Escape key presses one dialog sees at most
MaxEscapes == 2
\* /skills disable and /skills enable commands in one behaviour at most
MaxSkillCommands == 3
\* /agents commands entered in one behaviour at most
MaxCommands == 2

(***************************************************************************)
(* YAML values and the lines of a definition file.                         *)
(***************************************************************************)
Str(s) == [str |-> s]
Bool(b) == [bool |-> b]
Num(n) == [num |-> n]
List(l) == [list |-> l]
undefined == [undefined |-> TRUE]
null == [null |-> TRUE]

\* JavaScript typeof / Array.isArray on a YAML value
TypeOf(v) ==
  IF "str" \in DOMAIN v THEN "string"
  ELSE IF "bool" \in DOMAIN v THEN "boolean"
  ELSE IF "num" \in DOMAIN v THEN "number"
  ELSE IF "undefined" \in DOMAIN v THEN "undefined"
  ELSE "object"

IsArray(v) == "list" \in DOMAIN v

\* the line "---", the line "--- " (trailing blank), an empty line,
\* a "key: value" line and a line of plain text
Dash == [line |-> "---"]
DashSp == [line |-> "--- "]
Blank == [line |-> ""]
KV(k, v) == [key |-> k, val |-> v]
Text(s) == [text |-> s]

IsKV(l) == "key" \in DOMAIN l
IsBlank(l) == l = Blank

RECURSIVE SubSeqFrom(_, _)
\* lines i..Len(s) of s
SubSeqFrom(s, i) == IF i > Len(s) THEN <<>> ELSE <<s[i]>> \o SubSeqFrom(s, i + 1)

\* String.prototype.trim on the text after the closing delimiter: blank
\* lines at either end are whitespace
RECURSIVE TrimStart(_)
TrimStart(s) == IF s # <<>> /\ IsBlank(Head(s)) THEN TrimStart(Tail(s)) ELSE s

RECURSIVE TrimEnd(_)
TrimEnd(s) ==
  IF s # <<>> /\ IsBlank(s[Len(s)]) THEN TrimEnd(SubSeq(s, 1, Len(s) - 1)) ELSE s

Trim(s) == TrimEnd(TrimStart(s))

\* FRONTMATTER_REGEX = /^---\r?\n([\s\S]*?)\r?\n---\r?\n([\s\S]*)/
\* The text must start with a line that is exactly "---"; the lazy first
\* group ends at the first later line that is exactly "---", is preceded
\* by a line break of its own (so it is line 3 or later) and is followed
\* by a line break (so it is not the last line).
ClosingLines(content) ==
  {k \in 3..(Len(content) - 1) : content[k] = Dash}

FRONTMATTER_REGEX(content) ==
  IF Len(content) >= 1 /\ content[1] = Dash /\ ClosingLines(content) # {}
  THEN LET k == CHOOSE k \in ClosingLines(content) :
                  \A j \in ClosingLines(content) : k <= j
       IN [matched |-> TRUE,
           g1 |-> SubSeq(content, 2, k - 1),
           g2 |-> SubSeqFrom(content, k + 1)]
  ELSE [matched |-> FALSE]

(***************************************************************************)
(* yaml.load of the header lines: an empty header is undefined, a header   *)
(* of "key: value" lines with distinct keys is a mapping, a single line of *)
(* text is a string scalar, anything else is a YAML syntax error.          *)
(***************************************************************************)
yamlLoad(header) ==
  LET lines == SelectSeq(header, LAMBDA l : ~IsBlank(l))
  IN IF lines = <<>> THEN [value |-> undefined]
     ELSE IF \A i \in 1..Len(lines) : IsKV(lines[i])
     THEN IF \A i, j \in 1..Len(lines) : i # j => lines[i].key # lines[j].key
          THEN [value |-> [map |-> lines]]
          ELSE [throws |-> "duplicated mapping key"]
     ELSE IF Len(lines) = 1 /\ "text" \in DOMAIN lines[1]
     THEN [value |-> Str(lines[1].text)]
     ELSE [throws |-> "YAMLException"]

\* property access on the loaded mapping: the value or undefined
Field(frontmatter, k) ==
  IF "map" \in DOMAIN frontmatter
     /\ \E i \in 1..Len(frontmatter.map) : frontmatter.map[i].key = k
  THEN LET m == frontmatter.map
       IN m[CHOOSE i \in 1..Len(m) : m[i].key = k].val
  ELSE undefined

\* !frontmatter || typeof frontmatter !== 'object'
NotAnObject(v) ==
  \/ v = undefined
  \/ v = null
  \/ v = Str("")
  \/ TypeOf(v) # "object"

EveryString(l) == \A i \in 1..Len(l) : TypeOf(l[i]) = "string"

(***************************************************************************)
(* AgentManager.parseAgentFile: the metadata of one file, or null.  A file *)
(* is [readable, content]; fs.readFile of an unreadable file rejects and   *)
(* the catch clause returns null.                                          *)
(***************************************************************************)
\* no property is assigned
Nothing == <<>>

OptTools(tools) ==
  IF IsArray(tools) /\ EveryString(tools.list)
  THEN [tools |-> [i \in 1..Len(tools.list) |-> tools.list[i].str]]
  ELSE Nothing

OptModel(model) ==
  IF TypeOf(model) = "string" THEN [model |-> model.str] ELSE Nothing

OptDisabled(disabled) ==
  IF TypeOf(disabled) = "boolean" THEN [disabled |-> disabled.bool]
  ELSE Nothing

OptCreatedBy(created_by) ==
  IF TypeOf(created_by) = "string" THEN [created_by |-> created_by.str]
  ELSE Nothing

parseAgentFile(filePath, file) ==
  IF ~file.readable THEN null
  ELSE LET match == FRONTMATTER_REGEX(file.content)
       IN IF ~match.matched THEN null
          ELSE LET loaded == yamlLoad(match.g1)
               IN IF "throws" \in DOMAIN loaded THEN null
                  ELSE IF NotAnObject(loaded.value) THEN null
                  ELSE LET frontmatter == loaded.value
                           name == Field(frontmatter, "name")
                           description == Field(frontmatter, "description")
                       IN IF TypeOf(name) # "string" THEN null
                          ELSE [name |-> name.str,
                                description |->
                                  IF TypeOf(description) = "string"
                                  THEN description.str ELSE "",
                                location |-> filePath,
                                body |-> Trim(match.g2)]
                               @@ OptTools(Field(frontmatter, "tools"))
                               @@ OptModel(Field(frontmatter, "model"))
                               @@ OptDisabled(Field(frontmatter, "disabled"))
                               @@ OptCreatedBy(Field(frontmatter, "created_by"))

(***************************************************************************)
(* The files the two tier directories can hold.  "/u" is what              *)
(* Storage.getUserAgentsDir() resolves to, "/p" the project directory; the *)
(* project directory resolves to "/u" when the project root is the home    *)
(* directory.                                                              *)
(***************************************************************************)
UserDir == "/u"
ProjectDir == "/p"
Dirs == {UserDir, ProjectDir}

UserFiles == <<"/u/bad.md", "/u/a.md", "/u/scalar.md", "/u/a2.md",
               "/u/noname.md", "/u/b.md">>
ProjectFiles == <<"/p/locked.md", "/p/a.md", "/p/A.md", "/p/b.md",
                  "/p/my agent.md">>

FilesOf(dir) == IF dir = UserDir THEN UserFiles ELSE ProjectFiles

Range(f) == {f[i] : i \in DOMAIN f}

AllPaths == Range(UserFiles) \cup Range(ProjectFiles)

Readable(content) == [readable |-> TRUE, content |-> content]

FileOf(path) ==
  CASE path = "/u/a.md" ->
         Readable(<<Dash, KV("name", Str("a")),
                    KV("description", Str("User version")), Dash,
                    Text("User body")>>)
    [] path = "/u/a2.md" ->
         Readable(<<Dash, KV("name", Str("a")), KV("description", Num(7)),
                    KV("tools", List(<<Str("t1")>>)), KV("model", Str("m")),
                    Dash, Blank, Text("Other body"), Blank>>)
    [] path = "/u/b.md" ->
         Readable(<<Dash, KV("name", Str("b")),
                    KV("description", Str("Disabled")),
                    KV("disabled", Bool(TRUE)),
                    KV("created_by", Str("manual")), Dash, Text("Body")>>)
    [] path = "/u/bad.md" ->
         Readable(<<Text("Invalid content")>>)
    [] path = "/u/scalar.md" ->
         Readable(<<Dash, Text("just a sentence"), Dash, Text("Body")>>)
    [] path = "/u/noname.md" ->
         Readable(<<Dash, KV("name", Num(1)),
                    KV("description", Str("No name")), Dash, Text("Body")>>)
    [] path = "/p/A.md" ->
         Readable(<<Dash, KV("name", Str("A")),
                    KV("description", Str("Upper case")),
                    KV("disabled", Str("yes")), Dash, Text("Body")>>)
    [] path = "/p/a.md" ->
         Readable(<<Dash, KV("name", Str("a")),
                    KV("description", Str("Project version")),
                    KV("tools", List(<<Str("t1"), Num(2)>>)),
                    KV("disabled", Bool(FALSE)), Dash, Text("Project body"),
                    Blank>>)
    [] path = "/p/b.md" ->
         Readable(<<Dash, KV("name", Str("b")),
                    KV("description", Str("Enabled")),
                    KV("model", Str("gemini-pro")), Dash>>
                  \o <<Text("Project body")>>)
    [] path = "/p/my agent.md" ->
         Readable(<<Dash, KV("name", Str("my agent")),
                    KV("description", Str("Name with a blank")), Dash,
                    Text("Body")>>)
    \* the format the generation prompt of /agents create asks for
    [] path = "/p/grader.md" ->
         Readable(<<Dash, KV("name", Str("grader")),
                    KV("description", Str("Grades essays")),
                    KV("tools", List(<<>>)), KV("model", Str("inherit")),
                    KV("created_by", Str("gemini")), Dash, Blank,
                    Text("# grader Agent"), Blank>>)
    [] path = "/p/test-agent.md" ->
         Readable(<<Dash, KV("name", Str("test-agent")),
                    KV("description", Str("A test agent")),
                    KV("tools", List(<<Str("ls"), Str("read_file")>>)),
                    KV("model", Str("")), Dash,
                    Text("You are a test agent.")>>)
    [] OTHER -> [readable |-> FALSE, content |-> <<>>]

Names == {"a", "b", "A", "missing"}

\* the characters of the names that occur
CharsOf(name) ==
  CASE name = "a" -> <<"a">>
    [] name = "b" -> <<"b">>
    [] name = "A" -> <<"A">>
    [] name = "my agent" -> <<"m", "y", " ", "a", "g", "e", "n", "t">>
    [] name = "missing" -> <<"m", "i", "s", "s", "i", "n", "g">>
    [] name = "test-agent" ->
         <<"t", "e", "s", "t", "-", "a", "g", "e", "n", "t">>
    [] name = "grader" -> <<"g", "r", "a", "d", "e", "r">>
    [] name = "helper" -> <<"h", "e", "l", "p", "e", "r">>
    [] OTHER -> <<>>

IdentChars ==
  {"a", "b", "c", "d", "e", "f", "g", "h", "i", "j", "k", "l", "m", "n", "o",
   "p", "q", "r", "s", "t", "u", "v", "w", "x", "y", "z",
   "A", "B", "C", "D", "E", "F", "G", "H", "I", "J", "K", "L", "M", "N", "O",
   "P", "Q", "R", "S", "T", "U", "V", "W", "X", "Y", "Z",
   "0", "1", "2", "3", "4", "5", "6", "7", "8", "9", "_", "-"}

\* /^[a-zA-Z0-9_-]+$/.test(name)
IsIdentifier(name) ==
  /\ Len(CharsOf(name)) >= 1
  /\ \A i \in 1..Len(CharsOf(name)) : CharsOf(name)[i] \in IdentChars

(***************************************************************************)
(* The registry operations of AgentManager on the list this.agents.        *)
(***************************************************************************)
\* variant: the list is kept
clearAgents_keep(list) == list

\* this.agents = []
clearAgents(list) == <<>>

\* Map.prototype.set: a known key keeps its position and takes the new value
MapSet(m, agent) ==
  IF \E i \in 1..Len(m) : m[i].name = agent.name
  THEN [m EXCEPT ![CHOOSE i \in 1..Len(m) : m[i].name = agent.name] = agent]
  ELSE Append(m, agent)

RECURSIVE MapOf(_, _)
MapOf(m, list) ==
  IF list = <<>> THEN m ELSE MapOf(MapSet(m, Head(list)), Tail(list))

\* variants: the entries already held win; the lists are only concatenated
addAgentsWithPrecedence_heldWins(list, newAgents) ==
  MapOf(<<>>, newAgents \o list)

addAgentsWithPrecedence_concat(list, newAgents) == list \o newAgents

\* Array.from(agentMap.values()) over [...this.agents, ...newAgents]
addAgentsWithPrecedence(list, newAgents) == MapOf(<<>>, list \o newAgents)

\* variant: only an explicit disabled: false counts as enabled
NotDisabled_strict(s) == "disabled" \in DOMAIN s /\ ~s.disabled

\* JavaScript !s.disabled: an absent field is undefined, which is falsy
NotDisabled(s) == ~("disabled" \in DOMAIN s /\ s.disabled)

getAgents(list) == SelectSeq(list, NotDisabled)

getAllAgents(list) == list

\* variant: the lookup goes through the enabled entries only
getAgent_enabledOnly(list, name) ==
  LET enabled == getAgents(list)
  IN IF \E i \in 1..Len(enabled) : enabled[i].name = name
     THEN enabled[CHOOSE i \in 1..Len(enabled) : enabled[i].name = name]
     ELSE null

getAgent(list, name) ==
  IF \E i \in 1..Len(list) : list[i].name = name
  THEN list[CHOOSE i \in 1..Len(list) :
              /\ list[i].name = name
              /\ \A j \in 1..(i - 1) : list[j].name # name]
  ELSE null

Locations(list) == {list[i].location : i \in 1..Len(list)}

(***************************************************************************)
(* State.                                                                  *)
(***************************************************************************)
VARIABLES
  projectAgentsDir, \* what storage.getProjectAgentsDir() resolves to
  fsStat,           \* directory -> "dir", "missing", "file" or "unlistable"
  fsGlob,           \* directory -> the paths glob('*.md') returns
  fsFile,           \* the files written since the start: [path, file]
  agents,           \* AgentManager.agents
  call,             \* per discoverAgents() call: its locals and position
  started,          \* discoverAgents() calls started so far
  results,          \* the registry at each completed discoverAgents()
  lastRead          \* what the latest reader call returned

VARIABLES
  run,              \* per SubAgent.run() call: its arguments, locals, position
  aborted,          \* the AbortSignals that are aborted
  dlg,              \* the SubAgentDialog component
  bus,              \* handlers subscribed to TOOL_CONFIRMATION_REQUEST
  requests,         \* the TOOL_CONFIRMATION_REQUESTs published so far
  responses,        \* the TOOL_CONFIRMATION_RESPONSEs published so far
  cmd,              \* the /agents command: its position, dialog and items
  settings,         \* the settings store as the /skills command sees it
  snapshot          \* a list or entry a reader holds on to

fsVars == <<projectAgentsDir, fsStat, fsGlob, fsFile>>
registryVars == <<projectAgentsDir, fsStat, fsGlob, fsFile, agents, call,
                  started, results, lastRead>>
\* what the registry operations, the run and the dialog leave alone
relayVars == <<requests, responses>>
notRegistry == <<run, aborted, dlg, bus, relayVars, cmd, settings, snapshot>>
notRun == <<registryVars, dlg, bus, relayVars, cmd, settings, snapshot>>
notDialog == <<registryVars, cmd, settings, snapshot>>
vars == <<projectAgentsDir, fsStat, fsGlob, fsFile, agents, call, started,
          results, lastRead, run, aborted, dlg, bus, requests, responses, cmd,
          settings, snapshot>>

\* no reader holds on to anything
NoSnapshot == [op |-> "none", taken |-> <<>>, now |-> <<>>, aliased |-> FALSE]

\* fs.readFile: what was written to the path last, else what it held
ReadFile(path) ==
  IF \E w \in fsFile : w.path = path
  THEN (CHOOSE w \in fsFile : w.path = path).file
  ELSE FileOf(path)

Calls == {1, 2}
\* the callers of this repository await one discovery before the next
SeqCalls == {1}

InFlightPcs == {"stat", "glob", "read", "return"}
InFlight(c) == call[c].pc \in InFlightPcs

IdleCall ==
  [pc |-> "idle", tier |-> "none", searchPath |-> "", seenLocations |-> {},
   discoveredAgents |-> <<>>, agentFiles |-> <<>>, i |-> 0,
   error |-> "", prevAgents |-> <<>>, parsed |-> <<>>]

NoRead == [op |-> "none"]

\* the listings a directory can have: at most MaxFiles of its files, in
\* the directory's order
RECURSIVE Pick(_, _)
Pick(files, keep) ==
  IF files = <<>> THEN <<>>
  ELSE (IF Head(files) \in keep THEN <<Head(files)>> ELSE <<>>)
       \o Pick(Tail(files), keep)

Listings(dir) ==
  {Pick(FilesOf(dir), keep) :
     keep \in {k \in SUBSET Range(FilesOf(dir)) : Cardinality(k) <= MaxFiles}}

DirStates(dir) ==
  {[stat |-> "dir", glob |-> l] : l \in Listings(dir)}
    \cup {[stat |-> st, glob |-> <<>>] : st \in {"missing", "file", "unlistable"}}

(***************************************************************************)
(* SubAgent.run(task, onActivity, signal): what it builds from the         *)
(* metadata record and what it hands to the engine.                        *)
(***************************************************************************)
defaultTools ==
  <<"read_file", "write_file", "run_shell_command", "list_directory",
    "search_file_content">>

\* this.metadata.tools ? ... : ... with the test on the list's length
toolConfig_nonEmpty(metadata) ==
  IF "tools" \in DOMAIN metadata /\ metadata.tools # <<>>
  THEN [tools |-> metadata.tools]
  ELSE [tools |-> defaultTools]

\* an array, the empty one too, is truthy; an unassigned property is not
toolConfig(metadata) ==
  IF "tools" \in DOMAIN metadata
  THEN [tools |-> metadata.tools]
  ELSE [tools |-> defaultTools]

\* this.metadata.model || 'inherit'
modelOf_or(metadata) ==
  IF "model" \in DOMAIN metadata /\ metadata.model # ""
  THEN metadata.model ELSE "inherit"

\* this.metadata.model ?? 'inherit'
modelOf(metadata) ==
  IF "model" \in DOMAIN metadata THEN metadata.model ELSE "inherit"

definitionOf(metadata) ==
  [kind |-> "local",
   name |-> metadata.name,
   description |-> metadata.description,
   inputConfig |->
     [inputs |->
        [task |-> [description |-> "The task to perform",
                   type |-> "string", required |-> TRUE]]],
   promptConfig |-> [systemPrompt |-> metadata.body, query |-> "${task}"],
   modelConfig |->
     [model |-> modelOf(metadata), temp |-> "0.7", top_p |-> "0.95"],
   runConfig |-> [max_time_minutes |-> 5, max_turns |-> 30],
   toolConfig |-> toolConfig(metadata)]

\* AgentManager.metadataToAgentDefinition(metadata): the definition the
\* registry builds for the same record
metadataToAgentDefinition(metadata) ==
  [kind |-> "local",
   name |-> metadata.name,
   description |-> metadata.description,
   inputConfig |->
     [inputs |->
        [task |-> [description |-> "The task to perform",
                   type |-> "string", required |-> TRUE]]],
   promptConfig |-> [systemPrompt |-> metadata.body, query |-> "${task}"],
   modelConfig |->
     [model |-> modelOf(metadata), temp |-> "0.7", top_p |-> "0.95"],
   runConfig |-> [max_time_minutes |-> 5, max_turns |-> 20],
   toolConfig |-> IF "tools" \in DOMAIN metadata
                  THEN [tools |-> metadata.tools] ELSE undefined]

\* the engine inputs: const inputs = { task }
inputsOf(task) == [task |-> task]

\* AbortSignals: the one a caller holds for a run, the one run() makes for
\* itself, the one of the dialog's abortControllerRef; NoSignal is the
\* undefined of an omitted argument
NoSignal == <<"undefined", 0>>
CallerSignal(r) == <<"caller", r>>
FreshSignal(r) == <<"new AbortController", r>>
\* the token of the abortControllerRef of the g-th dialog mounted
SignalOf(g) == <<"abortControllerRef", g>>
DialogSignal == SignalOf(dlg.gen)

\* a run that observes a token of its own whatever the caller supplied
engineSignal_fresh(signal, r) == FreshSignal(r)

\* a run that falls back on the token the caller holds but did not supply
engineSignal_callers(signal, r) ==
  IF signal # NoSignal THEN signal ELSE CallerSignal(r)

\* signal ?? new AbortController().signal
engineSignal(signal, r) ==
  IF signal # NoSignal THEN signal ELSE FreshSignal(r)

\* activity callbacks: NoCallback is the undefined of an omitted argument
NoCallback == "undefined"

\* LocalAgentExecutor.create(definition, config) without the callback
passedCallback_none(onActivity) == NoCallback

\* the third argument of LocalAgentExecutor.create: onActivity itself
passedCallback(onActivity) == onActivity

\* return executor.run(...) with the reason rewritten
runReturn_goal(output) == [output EXCEPT !.terminate_reason = "GOAL"]

\* return executor.run(...): the promise of the engine's run is returned
runReturn(output) == output

Runs == {1, 2}
\* one run at a time
SeqRuns == {1}

NoOutput == [result |-> "", terminate_reason |-> "none"]

IdleRun ==
  [pc |-> "idle", metadata |-> null, task |-> "", onActivity |-> NoCallback,
   signal |-> NoSignal, definition |-> null, create |-> "none",
   createCallback |-> NoCallback, executor |-> 0, engineRunCalls |-> 0,
   engineInputs |-> null, engineSignal |-> NoSignal,
   emitted |-> <<>>, delivered |-> <<>>, engineOutput |-> NoOutput,
   output |-> NoOutput, error |-> "", cancelledInFlight |-> FALSE]

\* the metadata records runs are made for: parsed definition files
RunFiles == {"/u/a.md", "/u/a2.md", "/p/grader.md", "/p/test-agent.md"}
RunMetadata == {parseAgentFile(f, FileOf(f)) : f \in RunFiles}
Tasks == {"list the files", ""}
Callbacks == {"onActivity", NoCallback}

\* the engine (LocalAgentExecutor): its activity events, its termination
\* reasons and the results it resolves with
ActivityEvents == {"THOUGHT_CHUNK", "TOOL_CALL_START", "ERROR"}
TerminateReasons == {"GOAL", "MAX_TURNS", "TIMEOUT", "ERROR", "ABORTED"}
EngineOutputs(tokenAborted) ==
  IF tokenAborted
  THEN {[result |-> "", terminate_reason |-> "ABORTED"]}
  ELSE {[result |-> "Task result", terminate_reason |-> "GOAL"]}
       \cup {[result |-> "", terminate_reason |-> t] :
               t \in TerminateReasons \ {"GOAL", "ABORTED"}}

\* the dialog: its handler on the bus and its state before it is mounted
\* every mount makes a handler closure of its own; the g-th dialog
\* mounted runs its agent as run g
HandlerOf(g) == <<"handleConfirmationRequest", g>>
DialogHandler == HandlerOf(dlg.gen)
DialogRun == dlg.gen
DialogCallback == "dialog activity callback"
NoDialog ==
  [gen |-> 0, phase |-> "unmounted", status |-> "running",
   mounted |-> FALSE, agentName |-> "", runStarted |-> FALSE,
   resumed |-> FALSE, callbacks |-> <<>>, confirmationRequest |-> null,
   received |-> <<>>, escapes |-> 0, unsubscribed |-> 0]

\* the confirmation kinds of ToolConfirmationRequest.subType and the
\* outcomes a user decides
RequestKinds == {"exec", "edit"}
Outcomes == {"ProceedOnce", "ProceedAlways", "Cancel"}

\* the creation workflow before it is opened: the initial useState values
NoWorkflow ==
  [open |-> FALSE, initialName |-> "", currentStep |-> "NAME", name |-> "",
   scope |-> "project", method |-> "gemini", nameValidationError |-> "",
   storage |-> TRUE, onComplete |-> 0, onCancel |-> 0]

\* the /agents command before any invocation; config is whether
\* context.services.config is set
NoCommand ==
  [pc |-> "idle", config |-> TRUE, invocations |-> 0, action |-> "none", agentName |-> "",
   task |-> "", items |-> <<>>, debugMessage |-> "", workflow |-> NoWorkflow,
   result |-> null, created |-> <<>>, prompts |-> <<>>]

RunInit ==
  /\ run = [r \in Runs |-> IdleRun]
  /\ aborted = {}

DialogInit ==
  /\ dlg = NoDialog
  /\ bus = {}
  /\ requests = <<>>
  /\ responses = <<>>

\* the settings before any /skills command: nothing is disabled
NoSettings ==
  [disabled |-> <<>>, setValue |-> <<>>, log |-> <<>>,
   workspacePath |-> FALSE]

CommandInit == cmd = NoCommand /\ settings = NoSettings

Init ==
  /\ RunInit
  /\ DialogInit
  /\ CommandInit
  /\ projectAgentsDir \in Dirs
  /\ \E u \in DirStates(UserDir), p \in DirStates(ProjectDir) :
       /\ fsStat = [d \in Dirs |-> IF d = UserDir THEN u.stat ELSE p.stat]
       /\ fsGlob = [d \in Dirs |-> IF d = UserDir THEN u.glob ELSE p.glob]
  \* a project directory that is the user directory leaves "/p" unused
  /\ projectAgentsDir = UserDir =>
       fsStat[ProjectDir] = "missing" /\ fsGlob[ProjectDir] = <<>>
  /\ fsFile = {}
  /\ agents = <<>>
  /\ call = [c \in Calls |-> IdleCall]
  /\ started = 0
  /\ results = <<>>
  /\ lastRead = NoRead
  /\ snapshot = NoSnapshot

(***************************************************************************)
(* discoverAgents() and discoverAgentsInternal(), one action per stretch   *)
(* of code between two awaits.                                             *)
(***************************************************************************)
\* variant: the seen locations are those of the registry the call found
\* when it began
EnterInternal_stale(rec, tier, dir, list) ==
  [rec EXCEPT !.pc = "stat", !.tier = tier, !.searchPath = dir,
              !.seenLocations = Locations(rec.prevAgents),
              !.discoveredAgents = <<>>, !.agentFiles = <<>>, !.i = 0]

\* discoverAgentsInternal up to its first await: the locals are set up and
\* fs.stat of the only search path is pending
EnterInternal(rec, tier, dir, list) ==
  [rec EXCEPT !.pc = "stat", !.tier = tier, !.searchPath = dir,
              !.seenLocations = Locations(list), !.discoveredAgents = <<>>,
              !.agentFiles = <<>>, !.i = 0]

\* the for loop over agentFiles from position from: files in seenLocations
\* are skipped, the first other one is handed to parseAgentFile; 0 when the
\* loop is over
NextFile(files, from, seen) ==
  IF \E j \in from..Len(files) : files[j] \notin seen
  THEN CHOOSE j \in from..Len(files) :
         /\ files[j] \notin seen
         /\ \A k \in from..(j - 1) : files[k] \in seen
  ELSE 0

AtFile(rec, j) ==
  IF j = 0 THEN [rec EXCEPT !.pc = "return", !.i = 0]
  ELSE [rec EXCEPT !.pc = "read", !.i = j]

\* !stats || !stats.isDirectory(): the path is skipped, else glob is awaited
AfterStat(rec, st) ==
  [rec EXCEPT !.pc = IF st \in {"dir", "unlistable"} THEN "glob" ELSE "return"]

\* variant: the rejection of glob is not caught
AfterGlob_uncaught(rec, st, files) ==
  IF st = "unlistable" THEN [rec EXCEPT !.pc = "failed", !.error = "glob"]
  ELSE AtFile([rec EXCEPT !.agentFiles = files],
              NextFile(files, 1, rec.seenLocations))

\* the try block after glob: a rejection is caught and logged, which ends
\* the scan of this path; a listing starts the loop over its files
AfterGlob(rec, st, files) ==
  IF st = "unlistable" THEN [rec EXCEPT !.pc = "return"]
  ELSE AtFile([rec EXCEPT !.agentFiles = files],
              NextFile(files, 1, rec.seenLocations))

\* variant: a file that does not parse ends the scan of its directory
AfterParse_abort(rec, agentFile, metadata) ==
  IF metadata = null
  THEN [rec EXCEPT !.pc = "return", !.i = 0, !.parsed = Append(@, agentFile)]
  ELSE AtFile([rec EXCEPT !.seenLocations = @ \cup {agentFile},
                          !.discoveredAgents = Append(@, metadata),
                          !.parsed = Append(@, agentFile)],
              NextFile(rec.agentFiles, rec.i + 1,
                       rec.seenLocations \cup {agentFile}))

\* if (metadata) { discoveredAgents.push(metadata);
\*                 seenLocations.add(agentFile) }, then the next file
AfterParse(rec, agentFile, metadata) ==
  LET seen == IF metadata # null
              THEN rec.seenLocations \cup {agentFile}
              ELSE rec.seenLocations
      found == IF metadata # null
               THEN Append(rec.discoveredAgents, metadata)
               ELSE rec.discoveredAgents
  IN AtFile([rec EXCEPT !.seenLocations = seen, !.discoveredAgents = found,
                        !.parsed = Append(@, agentFile)],
            NextFile(rec.agentFiles, rec.i + 1, seen))

\* discoverAgents(storage) is called: clearAgents(), then
\* Storage.getUserAgentsDir() returns or throws, then the user tier scan
\* runs up to its fs.stat
discoverAgents(c) ==
  /\ ~InFlight(c)
  /\ started < MaxDiscover
  /\ started' = started + 1
  /\ agents' = clearAgents(agents)
  /\ \E throws \in BOOLEAN :
       LET rec == [IdleCall EXCEPT !.prevAgents = agents]
       IN call' = [call EXCEPT ![c] =
                     IF throws
                     THEN [rec EXCEPT !.pc = "failed",
                                      !.error = "getUserAgentsDir"]
                     ELSE EnterInternal(rec, "user", UserDir, agents')]
  /\ lastRead' = NoRead
  /\ UNCHANGED <<fsVars, results>>

\* a caller other than the /agents command calls discoverAgents
DiscoverAgents(c) == discoverAgents(c) /\ UNCHANGED notRegistry

\* fs.stat(...).catch(() => null) settles
StatSettles(c) ==
  /\ call[c].pc = "stat"
  /\ call' = [call EXCEPT ![c] = AfterStat(@, fsStat[@.searchPath])]
  /\ lastRead' = NoRead
  /\ UNCHANGED <<notRegistry, fsVars, agents, started, results>>

\* glob('*.md') settles: a rejection is caught and ends the scan of this
\* path, a listing starts the loop over the files
GlobSettles(c) ==
  /\ call[c].pc = "glob"
  /\ call' = [call EXCEPT ![c] =
                AfterGlob(@, fsStat[@.searchPath], fsGlob[@.searchPath])]
  /\ lastRead' = NoRead
  /\ UNCHANGED <<notRegistry, fsVars, agents, started, results>>

\* parseAgentFile(agentFile) settles: metadata is pushed and its location
\* recorded, the loop goes on to the next file
ParseSettles(c) ==
  /\ call[c].pc = "read"
  /\ LET agentFile == call[c].agentFiles[call[c].i]
     IN call' = [call EXCEPT ![c] =
                   AfterParse(@, agentFile,
                              parseAgentFile(agentFile, ReadFile(agentFile)))]
  /\ lastRead' = NoRead
  /\ UNCHANGED <<notRegistry, fsVars, agents, started, results>>

\* discoverAgentsInternal returns to discoverAgents: the tier is merged;
\* after the user tier storage.getProjectAgentsDir() returns or throws and
\* the project tier scan runs up to its fs.stat, after the project tier
\* the call is complete
tierReturns(c) ==
  /\ call[c].pc = "return"
  /\ agents' = addAgentsWithPrecedence(agents, call[c].discoveredAgents)
  /\ IF call[c].tier = "user"
     THEN /\ \E throws \in BOOLEAN :
               call' = [call EXCEPT ![c] =
                          IF throws
                          THEN [@ EXCEPT !.pc = "failed",
                                         !.error = "getProjectAgentsDir"]
                          ELSE EnterInternal(@, "project", projectAgentsDir,
                                             agents')]
          /\ results' = results
     ELSE /\ call' = [call EXCEPT ![c].pc = "done"]
          /\ results' = Append(results, agents')
  /\ lastRead' = NoRead
  /\ UNCHANGED <<fsVars, started>>

TierReturns(c) == tierReturns(c) /\ UNCHANGED notRegistry

\* clearAgents() called from outside, between discoveries
clearAgentsCalled ==
  /\ \A c \in Calls : ~InFlight(c)
  /\ \E c \in Calls : call[c].pc # "idle"
  /\ agents' = clearAgents(agents)
  /\ call' = [c \in Calls |-> IdleCall]
  /\ lastRead' = NoRead
  /\ UNCHANGED <<fsVars, started, results>>

ClearAgents == clearAgentsCalled /\ UNCHANGED notRegistry

(***************************************************************************)
(* Readers.  They run at any moment, also between two steps of a call.     *)
(***************************************************************************)
GetAgents ==
  /\ lastRead' = [op |-> "getAgents", result |-> getAgents(agents)]
  /\ UNCHANGED <<notRegistry, fsVars, agents, call, started, results>>

GetAllAgents ==
  /\ lastRead' = [op |-> "getAllAgents", result |-> getAllAgents(agents)]
  /\ UNCHANGED <<notRegistry, fsVars, agents, call, started, results>>

GetAgent(name) ==
  /\ lastRead' = [op |-> "getAgent", name |-> name,
                  result |-> getAgent(agents, name)]
  /\ UNCHANGED <<notRegistry, fsVars, agents, call, started, results>>

Next ==
  \/ \E c \in SeqCalls : DiscoverAgents(c)
  \/ \E c \in SeqCalls : StatSettles(c)
  \/ \E c \in SeqCalls : GlobSettles(c)
  \/ \E c \in SeqCalls : ParseSettles(c)
  \/ \E c \in SeqCalls : TierReturns(c)
  \/ ClearAgents
  \/ GetAgents
  \/ GetAllAgents
  \/ \E name \in Names : GetAgent(name)

Spec == Init /\ [][Next]_vars

(***************************************************************************)
(* What one undisturbed discoverAgents() call computes, as a function of   *)
(* the file system.                                                        *)
(***************************************************************************)
ParsedOf(path) == parseAgentFile(path, FileOf(path))

RECURSIVE ScanFiles(_, _, _)
ScanFiles(files, seen, found) ==
  IF files = <<>> THEN found
  ELSE LET agentFile == Head(files)
           metadata == ParsedOf(agentFile)
       IN IF agentFile \in seen \/ metadata = null
          THEN ScanFiles(Tail(files), seen, found)
          ELSE ScanFiles(Tail(files), seen \cup {agentFile},
                         Append(found, metadata))

discoverAgentsInternal(dir, list) ==
  IF fsStat[dir] = "dir" THEN ScanFiles(fsGlob[dir], Locations(list), <<>>)
  ELSE <<>>

FullDiscovery ==
  LET userTier ==
        addAgentsWithPrecedence(<<>>, discoverAgentsInternal(UserDir, <<>>))
  IN addAgentsWithPrecedence(userTier,
                             discoverAgentsInternal(projectAgentsDir, userTier))

(***************************************************************************)
(* Vocabulary of the properties.                                           *)
(***************************************************************************)
Done(c) == call[c].pc = "done"
Failed(c) == call[c].pc = "failed"

\* the files a scan of dir finds, and those of them that parse
Listed(dir) == IF fsStat[dir] = "dir" THEN Range(fsGlob[dir]) ELSE {}
Parseable(dir) == {f \in Listed(dir) : ParsedOf(f) # null}
Defining(dir, name) == {f \in Parseable(dir) : ParsedOf(f).name = name}

Entries(list) == {list[i] : i \in 1..Len(list)}
EntriesNamed(list, name) == {i \in 1..Len(list) : list[i].name = name}

\* C1: after discoverAgents() completes, a name defined by a parseable file
\* in both the user tier and the project tier has a single registry entry,
\* and that entry is the parse of a project-tier file of that name.
C1_ProjectPrecedence ==
  \A c \in Calls : Done(c) =>
    \A name \in Names :
      (Defining(UserDir, name) # {} /\ Defining(projectAgentsDir, name) # {})
      => /\ Cardinality(EntriesNamed(agents, name)) = 1
         /\ \E f \in Defining(projectAgentsDir, name) :
              ParsedOf(f) \in Entries(agents)
         /\ projectAgentsDir # UserDir =>
              \A f \in Defining(UserDir, name) :
                ParsedOf(f) \notin Entries(agents)

C1_Witness ==
  /\ \E c \in Calls : Done(c)
  /\ projectAgentsDir = ProjectDir
  /\ "/u/a.md" \in Listed(UserDir)
  /\ "/p/a.md" \in Listed(ProjectDir)
  /\ ParsedOf("/p/a.md") \in Entries(agents)

\* C3: in every reachable state no two registry entries have the same name.
C3_UniqueNames ==
  \A i, j \in 1..Len(agents) : i # j => agents[i].name # agents[j].name

C3_Witness ==
  /\ \E c \in Calls : Done(c)
  /\ Cardinality(Defining(UserDir, "a") \cup Defining(projectAgentsDir, "a")) >= 2
  /\ Cardinality(EntriesNamed(agents, "a")) = 1

\* the stepwise call and the function agree
StepwiseAgrees == \A c \in Calls : Done(c) => agents = FullDiscovery

ResolveErrors == {"getUserAgentsDir", "getProjectAgentsDir"}

\* the scanned tier directories and their parseable files
TierDirs == {UserDir, projectAgentsDir}
Good == Parseable(UserDir) \cup Parseable(projectAgentsDir)
Bad == (Listed(UserDir) \cup Listed(projectAgentsDir)) \ Good
DistinctNames ==
  \A f, g \in Good : f # g => ParsedOf(f).name # ParsedOf(g).name

\* C5: with N parseable files of pairwise distinct names and M files that
\* do not parse, a completed discoverAgents() leaves exactly the N parses
\* in the registry (none when N = 0), and a call fails only when resolving
\* a tier directory throws, never because of a file.
C5_MalformedIgnored ==
  \A c \in Calls :
    /\ Failed(c) => call[c].error \in ResolveErrors
    /\ (Done(c) /\ DistinctNames) =>
         /\ Entries(agents) = {ParsedOf(f) : f \in Good}
         /\ Len(agents) = Cardinality(Good)

C5_Witness ==
  /\ \E c \in Calls : Done(c)
  /\ DistinctNames
  /\ Cardinality(Good) >= 2
  /\ Bad # {}
  /\ Len(agents) = Cardinality(Good)

AsMapping(list) ==
  [name \in {list[i].name : i \in 1..Len(list)} |->
     list[CHOOSE i \in 1..Len(list) : list[i].name = name]]

\* C6: over an unchanged file system every completed discoverAgents() call
\* leaves the same name-to-fields mapping as the completed call before it.
C6_Idempotent ==
  \A k \in 1..(Len(results) - 1) :
    AsMapping(results[k + 1]) = AsMapping(results[k])

C6_Witness ==
  /\ Len(results) >= 2
  /\ Len(results[2]) >= 2
  /\ Cardinality(Defining(UserDir, "a")) = 2

RECURSIVE CountIn(_, _)
CountIn(seq, x) ==
  IF seq = <<>> THEN 0
  ELSE (IF Head(seq) = x THEN 1 ELSE 0) + CountIn(Tail(seq), x)

\* the entries of list that are not disabled, in the order of list
EnabledOf(list) ==
  LET enabledUpTo(i) ==
        Cardinality({j \in 1..i : ~("disabled" \in DOMAIN list[j]
                                     /\ list[j].disabled = TRUE)})
  IN [k \in 1..enabledUpTo(Len(list)) |->
        list[CHOOSE i \in 1..Len(list) :
               /\ ~("disabled" \in DOMAIN list[i] /\ list[i].disabled = TRUE)
               /\ enabledUpTo(i) = k]]

\* C8: getAgents() returns exactly the registry entries whose disabled
\* field is not true, in registry order, and getAllAgents() returns every
\* entry, the disabled ones included.
C8_DisabledFiltering ==
  /\ lastRead.op = "getAgents" => lastRead.result = EnabledOf(agents)
  /\ lastRead.op = "getAllAgents" =>
       /\ lastRead.result = agents
       /\ \A i \in 1..Len(agents) : agents[i] \in Entries(lastRead.result)

C8_Witness ==
  /\ lastRead.op = "getAgents"
  /\ Len(agents) = 2
  /\ Len(lastRead.result) = 1
  /\ \E i \in 1..Len(agents) :
       "disabled" \in DOMAIN agents[i] /\ agents[i].disabled
  /\ \E i \in 1..Len(agents) : "disabled" \notin DOMAIN agents[i]

\* C9: getAgent(name) returns the entry whose name equals the argument
\* exactly, a disabled entry included, and null when the registry holds
\* none; the call leaves the registry unchanged.
C9_GetAgent ==
  /\ [](lastRead.op = "getAgent" =>
          /\ \A i \in 1..Len(agents) :
               agents[i].name = lastRead.name => lastRead.result = agents[i]
          /\ EntriesNamed(agents, lastRead.name) = {} => lastRead.result = null)
  /\ [][lastRead'.op = "getAgent" => agents' = agents]_vars

C9_Witness ==
  /\ lastRead.op = "getAgent"
  /\ lastRead.name = "b"
  /\ lastRead.result # null
  /\ "disabled" \in DOMAIN lastRead.result
  /\ lastRead.result.disabled

\* a scan of dir contributes nothing: the directory is missing, is not a
\* directory, or listing it raises an error
ScanFails(dir) == fsStat[dir] # "dir"

\* no later file of the listing of dir defines the name that f defines
LastOfName(dir, f) ==
  \A i, j \in 1..Len(fsGlob[dir]) :
    (fsGlob[dir][i] = f /\ i < j /\ ParsedOf(fsGlob[dir][j]) # null)
    => ParsedOf(fsGlob[dir][j]).name # ParsedOf(f).name

C10_Cases(inRegistry(_, _)) ==
  \A c \in Calls :
    /\ Failed(c) => call[c].error \in ResolveErrors
    /\ (call[c].pc = "return" /\ ScanFails(call[c].searchPath)) =>
         call[c].discoveredAgents = <<>>
    /\ Done(c) =>
         \A d1, d2 \in TierDirs :
           (d1 # d2 /\ ScanFails(d1) /\ ~ScanFails(d2)) =>
             \A f \in Parseable(d2) : inRegistry(d2, f)

\* C10 as stated: when the scan of one directory fails it contributes no
\* file, the call still completes, and every parseable file of the other
\* tier is in the registry.
C10_AsStated ==
  C10_Cases(LAMBDA d, f : ParsedOf(f) \in Entries(agents))

\* C10: when the scan of one directory fails it contributes no file, the
\* call fails only if resolving a directory throws, and every parseable
\* file of the other tier is in the registry unless a later file of that
\* tier defines the same name.
C10_ScanFailureIsolated ==
  C10_Cases(LAMBDA d, f : LastOfName(d, f) => ParsedOf(f) \in Entries(agents))

C10_Witness ==
  /\ \E c \in Calls : Done(c)
  /\ projectAgentsDir = ProjectDir
  /\ fsStat[UserDir] = "unlistable"
  /\ Cardinality(Parseable(ProjectDir)) = 2
  /\ Len(agents) = 2

\* C2 as stated: what a reader gets while a discoverAgents() call is in
\* flight is computed from the complete registry of the previous discovery
\* or from the complete registry of the new one.
C2_NoPartialRegistry ==
  \A c \in Calls : InFlight(c) =>
    \E whole \in {call[c].prevAgents, FullDiscovery} :
      /\ lastRead.op = "getAllAgents" => lastRead.result = whole
      /\ lastRead.op = "getAgents" => lastRead.result = getAgents(whole)
      /\ lastRead.op = "getAgent" =>
           lastRead.result = getAgent(whole, lastRead.name)

\* C4 as stated: within one discoverAgents() call every path is handed to
\* parseAgentFile at most once, and a path contributes at most one entry.
C4_ParsedOnce ==
  /\ \A c \in Calls : \A path \in AllPaths : CountIn(call[c].parsed, path) <= 1
  /\ \A path \in AllPaths :
       Cardinality({i \in 1..Len(agents) : agents[i].location = path}) <= 1

\* C7 as stated: after a discoverAgents() call has failed the registry is
\* what it was before the call started.
C7_FailureKeepsRegistry ==
  \A c \in Calls : Failed(c) => agents = call[c].prevAgents

\* C11 as stated: every registry entry has a name matching [A-Za-z0-9_-]+,
\* a file whose name is a string of another shape being dropped.
C11_WellFormedNames ==
  \A i \in 1..Len(agents) : IsIdentifier(agents[i].name)

(***************************************************************************)
(* SubAgent.run(), one action per stretch of code between two awaits, and  *)
(* the engine it drives.                                                   *)
(***************************************************************************)
Settled(r) == run[r].pc \in {"returned", "threw"}
\* the token the caller supplied is cancelled
CallerCancelled(rec) == rec.signal # NoSignal /\ rec.signal \in aborted

\* run() up to its await: the definition is built and
\* LocalAgentExecutor.create(definition, config, onActivity) is pending
StartRun(metadata, task, onActivity, signal) ==
  [IdleRun EXCEPT !.pc = "creating", !.metadata = metadata, !.task = task,
                  !.onActivity = onActivity, !.signal = signal,
                  !.definition = definitionOf(metadata),
                  !.createCallback = passedCallback(onActivity)]

\* an executor kept where every call finds it: the first one obtained
usedExecutor_shared(r) == 1

\* const executor = await ...: the executor this call obtained, which is
\* the one created with this call's definition and callback
usedExecutor(r) == r

\* a rejection of create that run() catches and carries on from
AfterCreate_swallow(rec, r, ok) ==
  [rec EXCEPT !.pc = "running",
              !.create = IF ok THEN "ok" ELSE "failed",
              !.executor = usedExecutor(r),
              !.engineRunCalls = @ + 1,
              !.engineInputs = inputsOf(rec.task),
              !.engineSignal = engineSignal(rec.signal, r)]

\* run() after the await: executor.run(inputs, signal ?? ...) is invoked,
\* or the rejection of create leaves run() at once
AfterCreate(rec, r, ok) ==
  IF ok
  THEN [rec EXCEPT !.pc = "running", !.create = "ok",
                   !.executor = usedExecutor(r),
                   !.engineRunCalls = @ + 1,
                   !.engineInputs = inputsOf(rec.task),
                   !.engineSignal = engineSignal(rec.signal, r)]
  ELSE [rec EXCEPT !.pc = "threw", !.create = "failed",
                   !.error = "create failed",
                   !.cancelledInFlight = CallerCancelled(rec)]

\* the engine calls the callback it was created with once per event
Deliver(rec, ev) ==
  IF rec.createCallback # NoCallback THEN Append(rec.delivered, ev)
  ELSE rec.delivered

\* a caller calls run() on a SubAgent made for one of the records, with
\* or without a token
StartsRun(r, metadatas, tasks, callbacks) ==
  /\ run[r].pc = "idle"
  /\ \E metadata \in metadatas, task \in tasks, onActivity \in callbacks,
        signal \in {NoSignal, CallerSignal(r)} :
       run' = [run EXCEPT ![r] = StartRun(metadata, task, onActivity, signal)]
  /\ UNCHANGED <<notRun, aborted>>

CallRun(r) == StartsRun(r, RunMetadata, Tasks, Callbacks)

\* whoever holds the controller of the caller's token aborts it
CallerCancels(r) ==
  /\ CallerSignal(r) \notin aborted
  /\ aborted' = aborted \cup {CallerSignal(r)}
  /\ UNCHANGED <<notRun, run>>

CreateSettles(r) ==
  /\ run[r].pc = "creating"
  /\ \E ok \in BOOLEAN : run' = [run EXCEPT ![r] = AfterCreate(@, r, ok)]
  /\ UNCHANGED <<notRun, aborted>>

\* the engine's run of call r emits an event: the executor that runs
\* calls the callback it was created with
Emitted(r, ev) ==
  LET creator == run[r].executor
      emitted == [run EXCEPT ![r].emitted = Append(@, ev)]
  IN [emitted EXCEPT ![creator].delivered = Deliver(run[creator], ev)]

EmitsFrom(r, events) ==
  /\ run[r].pc = "running"
  /\ Len(run[r].emitted) < MaxEvents
  /\ \E ev \in events : run' = Emitted(r, ev)
  /\ UNCHANGED <<notRun, aborted>>

EngineEmits(r) == EmitsFrom(r, ActivityEvents)

\* the engine's run resolves: with the cancelled outcome when its token is
\* aborted
EngineResolves(r) ==
  /\ run[r].pc = "running"
  /\ \E out \in EngineOutputs(run[r].engineSignal \in aborted) :
       run' = [run EXCEPT ![r].pc = "returned",
                          ![r].engineOutput = out,
                          ![r].output = runReturn(out),
                          ![r].cancelledInFlight = CallerCancelled(run[r])]
  /\ UNCHANGED <<notRun, aborted>>

\* the engine's run throws
EngineRejects(r) ==
  /\ run[r].pc = "running"
  /\ run[r].engineSignal \notin aborted
  /\ run' = [run EXCEPT ![r].pc = "threw", ![r].error = "engine error",
                        ![r].cancelledInFlight = CallerCancelled(run[r])]
  /\ UNCHANGED <<notRun, aborted>>

\* no agent directory exists and nothing was discovered
QuietRegistry ==
  /\ projectAgentsDir = ProjectDir
  /\ fsStat = [d \in Dirs |-> "missing"]
  /\ fsGlob = [d \in Dirs |-> <<>>]
  /\ fsFile = {}
  /\ agents = <<>>
  /\ call = [c \in Calls |-> IdleCall]
  /\ started = 0
  /\ results = <<>>
  /\ lastRead = NoRead
  /\ snapshot = NoSnapshot

InitRun == QuietRegistry /\ RunInit /\ DialogInit /\ CommandInit

NextRun ==
  \E r \in SeqRuns :
    \/ CallRun(r)
    \/ CallerCancels(r)
    \/ CreateSettles(r)
    \/ EngineEmits(r)
    \/ EngineResolves(r)
    \/ EngineRejects(r)

SpecRun == InitRun /\ [][NextRun]_vars

C13_TokenForwarded ==
  \A r \in Runs :
    run[r].engineRunCalls > 0 =>
      /\ run[r].signal # NoSignal => run[r].engineSignal = run[r].signal
      /\ run[r].engineSignal \in aborted <=> CallerCancelled(run[r])
      /\ run[r].signal = NoSignal => run[r].engineSignal \notin aborted

\* the engine runs without a caller's token while the caller has cancelled
\* the token it holds
C13_Witness ==
  \E r \in Runs :
    /\ run[r].pc = "running"
    /\ run[r].signal = NoSignal
    /\ CallerSignal(r) \in aborted

\* C14: the engine is given the caller's callback itself, and the events
\* delivered to that callback are the events the engine emitted, in the
\* same order, none dropped, duplicated or altered.
C14_ActivityForwarded ==
  \A r \in Runs :
    run[r].pc # "idle" =>
      /\ run[r].createCallback = run[r].onActivity
      /\ run[r].onActivity # NoCallback =>
           run[r].delivered = run[r].emitted

\* a run with a callback has ended after the engine emitted MaxEvents
\* events, two different ones among them
C14_Witness ==
  \E r \in Runs :
    /\ Settled(r)
    /\ run[r].onActivity # NoCallback
    /\ Len(run[r].delivered) = MaxEvents
    /\ run[r].delivered[1] # run[r].delivered[2]

\* C15: the output run() returns is the output the engine's run produced,
\* result text and termination reason unmodified.
C15_OutputUnmodified ==
  \A r \in Runs :
    run[r].pc = "returned" =>
      /\ run[r].output = run[r].engineOutput
      /\ run[r].output.terminate_reason \in TerminateReasons

\* a run has returned an output whose reason is not the goal
C15_Witness ==
  \E r \in Runs :
    /\ run[r].pc = "returned"
    /\ run[r].engineOutput.terminate_reason = "TIMEOUT"

\* C16: when obtaining the executor fails, run() has failed, the engine's
\* run was not invoked and no activity event was delivered.
C16_CreateFailureStops ==
  \A r \in Runs :
    run[r].create = "failed" =>
      /\ run[r].pc = "threw"
      /\ run[r].engineRunCalls = 0
      /\ run[r].emitted = <<>> /\ run[r].delivered = <<>>

\* obtaining the executor failed for a run that was given a callback
C16_Witness ==
  \E r \in Runs :
    /\ run[r].create = "failed"
    /\ run[r].onActivity # NoCallback
    /\ run[r].pc = "threw"

C18_EmptyToolsUnrestricted ==
  \A r \in Runs :
    (/\ run[r].pc # "idle"
     /\ "tools" \in DOMAIN run[r].metadata
     /\ run[r].metadata.tools = <<>>)
      => run[r].definition.toolConfig.tools # <<>>

\* C19: the built definition has exactly one input, a required string
\* named task; the engine inputs bind task to the caller's task string;
\* the system prompt is the body; the model is the metadata's model when
\* set and 'inherit' otherwise.
C19_DefinitionShape ==
  \A r \in Runs :
    run[r].pc # "idle" =>
      LET def == run[r].definition
      IN /\ DOMAIN def.inputConfig.inputs = {"task"}
         /\ def.inputConfig.inputs.task.type = "string"
         /\ def.inputConfig.inputs.task.required
         /\ def.promptConfig.systemPrompt = run[r].metadata.body
         /\ def.modelConfig.model =
              IF "model" \in DOMAIN run[r].metadata
              THEN run[r].metadata.model ELSE "inherit"
         /\ run[r].engineRunCalls > 0 =>
              /\ DOMAIN run[r].engineInputs = {"task"}
              /\ run[r].engineInputs.task = run[r].task

\* the engine runs a definition whose model is set to the empty string
C19_Witness ==
  \E r \in Runs :
    /\ run[r].pc = "running"
    /\ "model" \in DOMAIN run[r].metadata
    /\ run[r].metadata.model = ""
    /\ run[r].task # ""

(***************************************************************************)
(* SubAgentDialog: its effects at mount, the Escape key, confirmation      *)
(* requests and the user's decisions, the continuation of runAgent after   *)
(* the run, and its cleanups at unmount.                                   *)
(***************************************************************************)
\* the status the cleanup of the run effect tests: the effect has no
\* dependencies, so its closure holds the status of the first render
CleanupStatus == "running"

\* runAgent is suspended at await subAgent.run(...) and the run has settled:
\* its continuation runs before any key press or unmount is handled
ResumePending ==
  dlg.runStarted /\ ~dlg.resumed /\ Settled(DialogRun)

Called(cb) == [dlg EXCEPT !.resumed = TRUE, !.callbacks = Append(@, cb)]

\* the confirmation dialog is rendered
PromptShown ==
  /\ dlg.phase = "mounted"
  /\ dlg.status # "finished"
  /\ dlg.confirmationRequest # null
  /\ dlg.confirmationRequest.subType = "exec"

\* the first commit: the subscription effect, then the run effect, which
\* calls runAgent up to its await
Mount(agentName, task) ==
  /\ dlg.phase \in {"unmounted", "gone"}
  /\ dlg.gen < Cardinality(Runs)
  /\ LET g == dlg.gen + 1
         metadata == getAgent(agents, agentName)
         \* received is the history of all dialogs
         mounted == [NoDialog EXCEPT !.gen = g, !.phase = "mounted",
                                     !.mounted = TRUE,
                                     !.agentName = agentName,
                                     !.received = dlg.received]
     IN /\ bus' = bus \cup {HandlerOf(g)}
        /\ IF metadata = null
           THEN /\ dlg' = [mounted EXCEPT !.callbacks = Append(@, "onError")]
                /\ run' = run
           ELSE /\ dlg' = [mounted EXCEPT !.runStarted = TRUE]
                /\ run' = [run EXCEPT ![g] =
                             StartRun(metadata, task, DialogCallback,
                                      SignalOf(g))]
  /\ UNCHANGED <<notDialog, aborted, relayVars>>

\* an Escape press that notifies the owner when the run is not running
handleKeypress_notify(d) ==
  IF d.status = "running" THEN [d EXCEPT !.status = "cancelling"]
  ELSE [d EXCEPT !.callbacks = Append(@, "onCancel")]

\* handleKeypress for the Escape key: the state it leaves
handleKeypress(d) ==
  IF d.status = "running" THEN [d EXCEPT !.status = "cancelling"] ELSE d

\* the user presses Escape
Escape ==
  /\ dlg.phase = "mounted"
  /\ ~ResumePending
  /\ dlg.escapes < MaxEscapes
  /\ dlg' = [handleKeypress(dlg) EXCEPT !.escapes = @ + 1]
  /\ aborted' = IF dlg.status = "running"
                THEN aborted \cup {DialogSignal} ELSE aborted
  /\ UNCHANGED <<notDialog, run, bus, relayVars, settings, snapshot>>

\* handleConfirmationRequest: the request replaces the one held
handleConfirmationRequest(d, request) ==
  [d EXCEPT !.confirmationRequest = request,
            !.received = Append(@, [correlationId |-> request.correlationId,
                                    gen |-> d.gen])]

\* the engine of a run publishes a confirmation request; the bus hands it
\* to the handlers subscribed
EngineRequests(r) ==
  /\ run[r].pc = "running"
  /\ Len(requests) < MaxRequests
  /\ \E subType \in RequestKinds :
       LET request == [correlationId |-> Len(requests) + 1,
                       subType |-> subType, run |-> r]
       IN /\ requests' = Append(requests, request)
          /\ dlg' = IF DialogHandler \in bus
                    THEN handleConfirmationRequest(dlg, request) ELSE dlg
  /\ UNCHANGED <<registryVars, cmd, settings, snapshot, run, aborted, bus,
                 responses>>

\* handleConfirmation that keeps the request it answered
afterConfirmation_keep(d) == d

\* handleConfirmation: setConfirmationRequest(null)
afterConfirmation(d) == [d EXCEPT !.confirmationRequest = null]

\* the response handleConfirmation publishes
responseTo(request, outcome) ==
  [correlationId |-> request.correlationId,
   confirmed |-> outcome \in {"ProceedOnce", "ProceedAlways"},
   outcome |-> outcome]

\* the user decides the prompt shown: handleConfirmation
Confirm(outcome) ==
  /\ PromptShown
  /\ ~ResumePending
  /\ Len(responses) <= MaxRequests
  /\ responses' = Append(responses,
                         responseTo(dlg.confirmationRequest, outcome))
  /\ dlg' = afterConfirmation(dlg)
  /\ UNCHANGED <<notDialog, run, aborted, bus, requests>>

\* runAgent that reports to its owner whether or not the dialog is mounted
Resume_unmounted ==
  /\ ResumePending
  /\ dlg' =
       IF DialogSignal \in aborted THEN Called("onCancel")
       ELSE IF run[DialogRun].pc = "returned"
            THEN [Called("onComplete") EXCEPT !.status = "finished"]
            ELSE Called("onError")
  /\ UNCHANGED <<notDialog, run, aborted, bus, relayVars, settings, snapshot>>

\* runAgent after await subAgent.run(...)
Resume ==
  /\ ResumePending
  /\ dlg' =
       IF ~dlg.mounted THEN [dlg EXCEPT !.resumed = TRUE]
       ELSE IF DialogSignal \in aborted THEN Called("onCancel")
       ELSE IF run[DialogRun].pc = "returned"
            THEN [Called("onComplete") EXCEPT !.status = "finished"]
            ELSE Called("onError")
  /\ UNCHANGED <<notDialog, run, aborted, bus, relayVars, settings, snapshot>>

\* cleanups that leave the handler on the bus
Unmount_leak ==
  /\ dlg.phase = "mounted"
  /\ ~ResumePending
  /\ dlg' = [dlg EXCEPT !.phase = "gone", !.mounted = FALSE]
  /\ aborted' = aborted \cup {DialogSignal}
  /\ UNCHANGED <<notDialog, run, bus, relayVars, settings, snapshot>>

\* the cleanups of the effects: unsubscribe(), mounted = false, abort()
Unmount ==
  /\ dlg.phase = "mounted"
  /\ ~ResumePending
  /\ dlg' = [dlg EXCEPT !.phase = "gone", !.mounted = FALSE,
                        !.unsubscribed = @ + 1]
  /\ bus' = bus \ {DialogHandler}
  /\ aborted' = IF CleanupStatus = "running"
                THEN aborted \cup {DialogSignal} ELSE aborted
  /\ UNCHANGED <<notDialog, run, relayVars>>

\* a session whose agent directories hold one definition in each tier and
\* whose registry was discovered from them before the dialog is opened
DialogRegistry ==
  /\ projectAgentsDir = ProjectDir
  /\ fsStat = [d \in Dirs |-> "dir"]
  /\ fsGlob = [d \in Dirs |->
                 IF d = UserDir THEN <<"/u/a.md">> ELSE <<"/p/grader.md">>]
  /\ fsFile = {}
  /\ agents = FullDiscovery
  /\ call = [c \in Calls |-> IdleCall]
  /\ started = 0
  /\ results = <<>>
  /\ lastRead = NoRead
  /\ snapshot = NoSnapshot

DialogNames == {"a", "grader", "missing"}
\* the task text plays no part in what the dialog does
DialogTasks == {"list the files"}

InitDialog == DialogRegistry /\ RunInit /\ DialogInit /\ CommandInit

\* the activity events of a run reach the thoughts line and the history
\* only, which are no part of dlg: EngineEmits is left to SpecRun
NextDialog ==
  \/ \E agentName \in DialogNames, task \in DialogTasks :
       Mount(agentName, task)
  \/ Escape
  \/ \E outcome \in Outcomes : Confirm(outcome)
  \/ Resume
  \/ Unmount
  \/ \E r \in Runs :
       \/ CreateSettles(r)
       \/ EngineRequests(r)
       \/ EngineResolves(r)
       \/ EngineRejects(r)

SpecDialog == InitDialog /\ [][NextDialog]_vars

\* C20 as stated: from the start of a run the dialog started until that run
\* has returned or thrown, a cancelled run included, the dialog's handler
\* for TOOL_CONFIRMATION_REQUEST is subscribed on the bus.
C20_SubscribedWhileRunning ==
  dlg.runStarted /\ ~Settled(DialogRun) => DialogHandler \in bus

\* C31: a dialog calls one of onComplete, onCancel, onError once at most and
\* none before its run has ended; a dialog still mounted when runAgent
\* resumes has called exactly one; a dialog that is gone calls none; and
\* after the user has cancelled with Escape the callback is onCancel,
\* whether the run returned or threw.
C31_OneCallback ==
  /\ [](Len(dlg.callbacks) <= 1)
  /\ [](dlg.runStarted /\ ~dlg.resumed => dlg.callbacks = <<>>)
  /\ [](dlg.runStarted /\ dlg.resumed /\ dlg.phase = "mounted" =>
          Len(dlg.callbacks) = 1)
  /\ [][dlg.phase = "gone" /\ dlg'.gen = dlg.gen =>
          dlg'.callbacks = dlg.callbacks]_vars
  /\ [][/\ dlg.status = "cancelling"
          /\ dlg'.gen = dlg.gen
          /\ dlg'.callbacks # dlg.callbacks
          => dlg'.callbacks = <<"onCancel">>]_vars

\* the user cancelled, the engine returned a result all the same, and the
\* dialog, still mounted, has called onCancel
C31_Witness ==
  /\ dlg.phase = "mounted"
  /\ dlg.status = "cancelling"
  /\ run[DialogRun].pc = "returned"
  /\ dlg.callbacks = <<"onCancel">>

\* the life of dialogs and their runs without the confirmation traffic; the
\* continuation of runAgent runs once the run has settled, and the owner
\* removes a dialog it has mounted
NextLifecycle ==
  \/ \E agentName \in DialogNames, task \in DialogTasks :
       Mount(agentName, task)
  \/ Escape
  \/ Resume
  \/ Unmount
  \/ \E r \in Runs :
       \/ CreateSettles(r)
       \/ EngineResolves(r)
       \/ EngineRejects(r)

SpecLifecycle ==
  /\ InitDialog
  /\ [][NextLifecycle]_vars
  /\ WF_vars(Resume)
  /\ WF_vars(Unmount)

ResponsesTo(id) ==
  {i \in 1..Len(responses) : responses[i].correlationId = id}
\* the correlationIds of the requests dialog g has received
ReceivedBy(g) ==
  {dlg.received[j].correlationId :
     j \in {k \in 1..Len(dlg.received) : dlg.received[k].gen = g}}

\* C22: no request gets more than one response, and every response
\* published carries the correlationId of a request a dialog had received
\* and not yet answered.
C22_AtMostOneResponse ==
  /\ \A i \in 1..Len(responses) :
       \E j \in 1..Len(dlg.received) :
         dlg.received[j].correlationId = responses[i].correlationId
  /\ \A id \in 1..MaxRequests + 1 : Cardinality(ResponsesTo(id)) <= 1

\* two requests were received and each was answered
C22_Witness ==
  /\ Len(dlg.received) >= 2
  /\ Cardinality(ResponsesTo(1)) = 1
  /\ Cardinality(ResponsesTo(2)) = 1

\* C23 as stated: every request a dialog receives gets exactly one response
\* once the user has decided every prompt shown, whatever its kind and also
\* when it arrived while an earlier one was unanswered.  While the run goes
\* on and no prompt is shown there is nothing left for the user to decide,
\* so every request the dialog has received has its response.
C23_EveryRequestAnswered ==
  (dlg.phase = "mounted" /\ dlg.status = "running" /\ ~PromptShown) =>
    \A id \in ReceivedBy(dlg.gen) : Cardinality(ResponsesTo(id)) = 1

\* C27: once a dialog's run has been cancelled with Escape, a further
\* Escape changes neither the status nor any token and calls back no owner
\* callback.
C27_CancelIdempotent ==
  [][(/\ dlg.status = "cancelling"
      /\ dlg'.gen = dlg.gen
      /\ dlg'.escapes = dlg.escapes + 1)
       => /\ dlg'.status = dlg.status
          /\ aborted' = aborted
          /\ dlg'.callbacks = dlg.callbacks]_vars

\* Escape was pressed again after the press that cancelled the run
C27_Witness ==
  /\ dlg.phase = "mounted"
  /\ dlg.runStarted
  /\ dlg.status = "cancelling"
  /\ dlg.escapes = 2
  /\ DialogSignal \in aborted

(***************************************************************************)
(* Two SubAgent.run() calls in flight at the same time.                    *)
(***************************************************************************)
\* two records of the name "a"
SameName == {parseAgentFile(f, FileOf(f)) : f \in {"/u/a.md", "/u/a2.md"}}

ConcurrentCall(r) ==
  StartsRun(r, SameName, {"list the files"}, {"onActivity"})
ConcurrentEmit(r) == EmitsFrom(r, {"THOUGHT_CHUNK"})

NextConcurrent ==
  \E r \in Runs :
    \/ ConcurrentCall(r)
    \/ CallerCancels(r)
    \/ CreateSettles(r)
    \/ ConcurrentEmit(r)
    \/ EngineResolves(r)
    \/ EngineRejects(r)

SpecConcurrent == InitRun /\ [][NextConcurrent]_vars

\* C28: of two calls in flight each has the definition built from its own
\* record and runs the executor it obtained itself, the events of a call
\* are delivered to that call's callback and to no other, and the engine
\* of a call sees a cancelled token only if that call's caller cancelled.
C28_Independent ==
  \A r \in Runs :
    /\ run[r].pc # "idle" =>
         /\ run[r].definition.description = run[r].metadata.description
         /\ run[r].definition.promptConfig.systemPrompt = run[r].metadata.body
         /\ run[r].delivered = run[r].emitted
    /\ run[r].engineRunCalls > 0 =>
         /\ run[r].executor = r
         /\ \A q \in Runs \ {r} :
              run[q].engineRunCalls > 0 =>
                /\ run[q].executor # run[r].executor
                /\ run[q].engineSignal # run[r].engineSignal
         /\ run[r].engineSignal \in aborted => CallerSignal(r) \in aborted

\* two calls for the name "a" run at the same time, each has emitted, and
\* the token of the first is cancelled while that of the second is not
C28_Witness ==
  /\ run[1].pc = "running" /\ run[2].pc = "running"
  /\ run[1].metadata.name = run[2].metadata.name
  /\ run[1].metadata # run[2].metadata
  /\ run[1].emitted # <<>> /\ Len(run[2].emitted) = MaxEvents
  /\ run[1].engineSignal \in aborted
  /\ run[2].signal # NoSignal /\ run[2].engineSignal \notin aborted

(***************************************************************************)
(* parseAgentFile on documents: a delimiter line, metadata lines of any    *)
(* type, a delimiter line, and a body that may also be missing.            *)
(***************************************************************************)
Absent == [absent |-> TRUE]
NameValues == {Absent, Str("a"), Num(7)}
FieldValues ==
  {Absent, Str("x"), Num(7), Bool(TRUE), List(<<Str("t1")>>),
   List(<<Num(1)>>)}
\* nothing after the closing delimiter, a line break only, or a text
Bodies == {<<>>, <<Blank>>, <<Text("Body")>>}

Line(k, v) == IF v = Absent THEN <<>> ELSE <<KV(k, v)>>

Document(name, description, tools, model, disabled, created_by, body) ==
  <<Dash>> \o Line("name", name) \o Line("description", description)
    \o Line("tools", tools) \o Line("model", model)
    \o Line("disabled", disabled) \o Line("created_by", created_by)
    \o <<Dash>> \o body

Documents ==
  {Document(n, d, t, m, e, c, b) :
     n \in NameValues, d \in FieldValues, t \in FieldValues,
     m \in FieldValues, e \in FieldValues, c \in FieldValues, b \in Bodies}

\* parseAgentFile is called on a file that holds one of the documents
ParseDocument ==
  /\ lastRead = NoRead
  /\ snapshot = NoSnapshot
  /\ \E doc \in Documents :
       lastRead' = [op |-> "parseAgentFile", content |-> doc,
                    result |-> parseAgentFile("/u/doc.md", Readable(doc))]
  /\ UNCHANGED <<notRegistry, fsVars, agents, call, started, results>>

NextParse == ParseDocument

SpecParse == InitRun /\ [][NextParse]_vars

\* the document starts with a delimiter line and has a second one
HasDelimiterPair(content) ==
  /\ Len(content) >= 2
  /\ content[1] = Dash
  /\ \E k \in 2..Len(content) : content[k] = Dash

\* the metadata value a document gives a key
ValueOf(content, k) ==
  IF \E i \in 1..Len(content) : IsKV(content[i]) /\ content[i].key = k
  THEN content[CHOOSE i \in 1..Len(content) :
                 IsKV(content[i]) /\ content[i].key = k].val
  ELSE Absent

IsString(v) == "str" \in DOMAIN v
IsBoolean(v) == "bool" \in DOMAIN v
IsStringArray(v) ==
  "list" \in DOMAIN v /\ \A i \in 1..Len(v.list) : IsString(v.list[i])

\* the entry has the optional fields of the expected type and no other,
\* and the description given or the empty string
FieldPolicy(content, entry) ==
  /\ entry.name = ValueOf(content, "name").str
  /\ entry.description =
       IF IsString(ValueOf(content, "description"))
       THEN ValueOf(content, "description").str ELSE ""
  /\ "tools" \in DOMAIN entry <=> IsStringArray(ValueOf(content, "tools"))
  /\ "model" \in DOMAIN entry <=> IsString(ValueOf(content, "model"))
  /\ "disabled" \in DOMAIN entry <=> IsBoolean(ValueOf(content, "disabled"))
  /\ "created_by" \in DOMAIN entry <=>
       IsString(ValueOf(content, "created_by"))

\* C26 as stated: a document with the delimiter pair and a string name
\* parses to an entry whatever the types of its other fields, each optional
\* field being in the entry exactly when it has the expected type; a
\* document whose name is absent or no string yields no entry.
C26_LenientParse ==
  lastRead.op = "parseAgentFile" =>
    LET content == lastRead.content
        name == ValueOf(content, "name")
    IN IF HasDelimiterPair(content) /\ IsString(name)
       THEN /\ lastRead.result # null
            /\ FieldPolicy(content, lastRead.result)
       ELSE lastRead.result = null

\* the same for the documents whose closing delimiter line is ended by a
\* line break
ParsePolicy ==
  lastRead.op = "parseAgentFile" =>
    LET content == lastRead.content
        name == ValueOf(content, "name")
    IN IF ClosingLines(content) # {} /\ IsString(name)
       THEN /\ lastRead.result # null
            /\ FieldPolicy(content, lastRead.result)
       ELSE lastRead.result = null

(***************************************************************************)
(* The /agents command: listAction, createAction with the creation         *)
(* workflow it opens, and runAction.  One action per stretch of code       *)
(* between two awaits or two key presses.                                   *)
(***************************************************************************)
\* the run slot of the run that /agents run starts
CommandRun == 1
\* the discoverAgents() call that /agents list makes
CommandCall == 1
CommandCallback == "onActivity"

\* what follows "/agents create " and what is typed at the NAME step
CreateNames == {"", "helper", "a", "my agent"}
\* what follows "/agents run ": a name and a task, either may be missing
RunNames == {"", "a", "missing"}
RunTasks == {"", "list the files"}

\* path.join(directoryPath, name + ".md")
PathJoin(directoryPath, name) == directoryPath \o "/" \o name \o ".md"

\* the template createAction writes for the manual method
ManualTemplate(name) ==
  <<DashSp, KV("name", Str(name)),
    KV("description",
       Str("A specialized agent for " \o name \o "-related tasks.")),
    KV("tools", List(<<>>)), KV("model", Str("inherit")),
    KV("created_by", Str("manual")), Dash, Blank,
    Text("# " \o name \o " Agent"), Blank,
    Text("You are a specialized sub-agent."), Blank>>

\* context.ui.addItem
AddItem(c, item) == [c EXCEPT !.items = Append(@, item)]

\* the command is entered while no command runs and no dialog is open
Enters(action, agentName) ==
  /\ cmd.pc = "idle"
  /\ cmd.invocations < MaxCommands
  /\ ~cmd.workflow.open

Entered(action, agentName) ==
  [cmd EXCEPT !.invocations = @ + 1, !.action = action,
              !.agentName = agentName]

\* listAction up to its await: agentManager.discoverAgents(storage), or
\* the error item when there is no agent manager
ListAction ==
  /\ Enters("list", "")
  /\ IF cmd.config
     THEN /\ discoverAgents(CommandCall)
          /\ cmd' = [Entered("list", "") EXCEPT !.pc = "listing"]
     ELSE /\ cmd' = AddItem(Entered("list", ""),
                            [type |-> "ERROR", text |-> "no agent manager"])
          /\ UNCHANGED registryVars
  /\ UNCHANGED <<run, aborted, dlg, bus, relayVars, settings, snapshot>>

\* listAction after the await: the list item with getAllAgents(), or the
\* rejection of discoverAgents leaves listAction
ListReturns ==
  /\ cmd.pc = "listing"
  /\ call[CommandCall].pc \in {"done", "failed"}
  /\ cmd' = IF call[CommandCall].pc = "done"
            THEN [AddItem(cmd, [type |-> "AGENTS_LIST",
                                agents |-> getAllAgents(agents)])
                    EXCEPT !.pc = "idle"]
            ELSE [cmd EXCEPT !.pc = "idle"]
  /\ UNCHANGED <<registryVars, run, aborted, dlg, bus, relayVars, settings, snapshot>>

\* createAction(context, args): the name is validated, then looked up in
\* the agent manager if there is one, then the creation workflow is
\* returned as a custom dialog with the storage of the configuration
createAction(c, list, agentName) ==
  IF agentName # "" /\ ~IsIdentifier(agentName)
  THEN AddItem(c, [type |-> "ERROR", text |-> "invalid name",
                   agentName |-> agentName])
  ELSE IF agentName # "" /\ c.config /\ getAgent(list, agentName) # null
  THEN AddItem(c, [type |-> "WARNING", text |-> "already exists",
                   agentName |-> agentName])
  ELSE [c EXCEPT !.pc = "dialog",
                 !.workflow = [NoWorkflow EXCEPT
                                 !.open = TRUE, !.initialName = agentName,
                                 !.storage = c.config,
                                 !.name = agentName,
                                 !.currentStep = IF agentName # ""
                                                 THEN "SCOPE" ELSE "NAME"]]

CreateAction(agentName) ==
  /\ Enters("create", agentName)
  /\ cmd' = createAction(Entered("create", agentName), agents, agentName)
  /\ UNCHANGED <<registryVars, run, aborted, dlg, bus, relayVars, settings, snapshot>>

\* validateName that rejects the empty name only
validateName_requiredOnly(inputName) ==
  IF inputName = "" THEN "Name is required." ELSE ""

\* validateName(inputName)
validateName(inputName) ==
  IF inputName = "" THEN "Name is required."
  ELSE IF ~IsIdentifier(inputName) THEN "invalid name"
  ELSE ""

\* getDirectoryPath(selectedScope) for type 'agent' in a workflow w, whose
\* storage property is set or null
getDirectoryPath(w, selectedScope) ==
  IF selectedScope = "project" /\ w.storage THEN projectAgentsDir
  ELSE UserDir

\* onComplete called with the scope the workflow starts with
onComplete_initialScope(c, method) ==
  [c EXCEPT !.pc = "mkdir",
            !.workflow.open = FALSE,
            !.workflow.method = method,
            !.workflow.onComplete = @ + 1,
            !.result = [name |-> c.workflow.name, scope |-> NoWorkflow.scope,
                        method |-> method,
                        directoryPath |->
                          getDirectoryPath(c.workflow, c.workflow.scope)]]

\* onComplete of createAction up to its await: the dialog is removed and
\* fs.mkdir(directoryPath, recursive) is pending
onComplete(c, method) ==
  [c EXCEPT !.pc = "mkdir",
            !.workflow.open = FALSE,
            !.workflow.method = method,
            !.workflow.onComplete = @ + 1,
            !.result = [name |-> c.workflow.name, scope |-> c.workflow.scope,
                        method |-> method,
                        directoryPath |->
                          getDirectoryPath(c.workflow, c.workflow.scope)]]

\* onCancel of createAction
onCancel(c) ==
  [AddItem(c, [type |-> "INFO", text |-> "cancelled"])
     EXCEPT !.pc = "idle", !.workflow.open = FALSE,
            !.workflow.onCancel = @ + 1]

AtStep(step) == cmd.pc = "dialog" /\ cmd.workflow.open
                  /\ cmd.workflow.currentStep = step

WorkflowFrame == UNCHANGED <<registryVars, run, aborted, dlg, bus, relayVars, settings, snapshot>>

handleNameSubmit(submittedName) ==
  /\ AtStep("NAME")
  /\ cmd' = IF validateName(submittedName) # ""
            THEN [cmd EXCEPT !.workflow.nameValidationError =
                               validateName(submittedName)]
            ELSE [cmd EXCEPT !.workflow.nameValidationError = "",
                             !.workflow.name = submittedName,
                             !.workflow.currentStep = "SCOPE"]
  /\ WorkflowFrame

handleScopeSelect(selectedScope) ==
  /\ AtStep("SCOPE")
  /\ cmd' = [cmd EXCEPT !.workflow.scope = selectedScope,
                        !.workflow.currentStep = "METHOD"]
  /\ WorkflowFrame

handleMethodSelect(selectedMethod) ==
  /\ AtStep("METHOD")
  /\ cmd' = IF selectedMethod = "gemini"
            THEN [cmd EXCEPT !.workflow.method = selectedMethod,
                             !.workflow.currentStep = "DESCRIPTION"]
            ELSE onComplete(cmd, selectedMethod)
  /\ WorkflowFrame

handleDescriptionSubmit ==
  /\ AtStep("DESCRIPTION")
  /\ cmd' = onComplete(cmd, cmd.workflow.method)
  /\ WorkflowFrame

\* the Escape key: the useInput handler of the workflow and, at the NAME
\* and DESCRIPTION steps, the onCancel property of the focused TextInput
WorkflowEscape ==
  /\ cmd.pc = "dialog" /\ cmd.workflow.open
  /\ cmd' =
       CASE cmd.workflow.currentStep = "NAME" -> onCancel(onCancel(cmd))
         [] cmd.workflow.currentStep = "SCOPE" ->
              IF cmd.workflow.initialName = ""
              THEN [cmd EXCEPT !.workflow.currentStep = "NAME"]
              ELSE onCancel(cmd)
         [] cmd.workflow.currentStep = "METHOD" ->
              [cmd EXCEPT !.workflow.currentStep = "SCOPE"]
         [] OTHER -> [cmd EXCEPT !.workflow.currentStep = "METHOD"]
  /\ WorkflowFrame

\* fs.mkdir settles: a missing directory exists now, a rejection is
\* swallowed; the Gemini method then adds its item and submits the prompt
MkdirSettles ==
  /\ cmd.pc = "mkdir"
  /\ LET dir == cmd.result.directoryPath
     IN fsStat' = [fsStat EXCEPT ![dir] = IF @ = "missing" THEN "dir" ELSE @]
  /\ cmd' = IF cmd.result.method = "manual"
            THEN [cmd EXCEPT !.pc = "write"]
            ELSE [AddItem(cmd, [type |-> "INFO", text |-> "generating",
                                agentName |-> cmd.result.name])
                    EXCEPT !.pc = "idle",
                           !.prompts =
                              Append(@, [name |-> cmd.result.name,
                                         filePath |->
                                           PathJoin(cmd.result.directoryPath,
                                                    cmd.result.name)])]
  /\ UNCHANGED <<projectAgentsDir, fsGlob, fsFile, agents, call, started,
                 results, lastRead, run, aborted, dlg, bus, relayVars, settings, snapshot>>

\* fs.writeFile(filePath, template) settles: the file holds the template
\* and the created item is added, or the rejection is reported
WriteFileSettles ==
  /\ cmd.pc = "write"
  /\ LET dir == cmd.result.directoryPath
         filePath == PathJoin(dir, cmd.result.name)
     IN \E ok \in {b \in BOOLEAN : b => fsStat[dir] \in {"dir", "unlistable"}} :
          IF ok
          THEN /\ fsFile' = {w \in fsFile : w.path # filePath}
                              \cup {[path |-> filePath,
                                     file |-> Readable(ManualTemplate(
                                                         cmd.result.name))]}
               /\ fsGlob' = [fsGlob EXCEPT ![dir] =
                               IF filePath \in Range(@) THEN @
                               ELSE Append(@, filePath)]
               /\ cmd' = [AddItem(cmd, [type |-> "INFO", text |-> "created",
                                        filePath |-> filePath])
                            EXCEPT !.pc = "idle",
                                   !.created =
                                      Append(@, [name |-> cmd.result.name,
                                                 filePath |-> filePath,
                                                 discoveries |-> Len(results)])]
          ELSE /\ cmd' = [AddItem(cmd, [type |-> "ERROR",
                                        text |-> "failed to create"])
                            EXCEPT !.pc = "idle"]
               /\ UNCHANGED <<fsFile, fsGlob>>
  /\ UNCHANGED <<projectAgentsDir, fsStat, agents, call, started, results,
                 lastRead, run, aborted, dlg, bus, relayVars, settings, snapshot>>

\* runAction up to its await: usage and lookup errors, else
\* subAgent.run(task, onActivity) is called, without a token
RunAction(agentName, task) ==
  /\ Enters("run", agentName)
  /\ run[CommandRun].pc = "idle"
  /\ LET entered == [Entered("run", agentName) EXCEPT !.task = task]
         metadata == IF cmd.config THEN getAgent(agents, agentName) ELSE null
     IN IF agentName = "" \/ task = ""
        THEN /\ cmd' = AddItem(entered, [type |-> "ERROR", text |-> "usage"])
             /\ run' = run
        ELSE IF metadata = null
        THEN /\ cmd' = AddItem(entered, [type |-> "ERROR",
                                         text |-> "not found",
                                         agentName |-> agentName])
             /\ run' = run
        ELSE /\ cmd' = [entered EXCEPT !.pc = "running"]
             /\ run' = [run EXCEPT ![CommandRun] =
                          StartRun(metadata, task, CommandCallback, NoSignal)]
  /\ UNCHANGED <<registryVars, aborted, dlg, bus, relayVars, settings, snapshot>>

\* the onActivity callback of runAction
onActivity(c, activity) ==
  IF activity = "THOUGHT_CHUNK"
  THEN [c EXCEPT !.debugMessage = "Sub-agent thinking"]
  ELSE IF activity = "TOOL_CALL_START"
  THEN AddItem(c, [type |-> "INFO", text |-> "calling tool"])
  ELSE c

\* the engine emits an event during the run of the command
CommandEmits ==
  /\ cmd.pc = "running"
  /\ run[CommandRun].pc = "running"
  /\ Len(run[CommandRun].emitted) < MaxEvents
  /\ \E ev \in ActivityEvents :
       /\ run' = Emitted(CommandRun, ev)
       /\ cmd' = IF run[run[CommandRun].executor].createCallback
                      = CommandCallback
                 THEN onActivity(cmd, ev) ELSE cmd
  /\ UNCHANGED <<registryVars, aborted, dlg, bus, relayVars, settings, snapshot>>

\* variant: the catch clause falls through to the finished item
afterRun_both(c, rec) ==
  IF rec.pc = "returned"
  THEN AddItem(c, [type |-> "INFO", text |-> "finished",
                   result |-> rec.output.result])
  ELSE AddItem(AddItem(c, [type |-> "ERROR", text |-> "failed",
                           error |-> rec.error]),
               [type |-> "INFO", text |-> "finished", result |-> ""])

\* runAction after the await: the finished item with output.result, or
\* the catch clause's failed item with the error's message
afterRun(c, rec) ==
  IF rec.pc = "returned"
  THEN AddItem(c, [type |-> "INFO", text |-> "finished",
                   result |-> rec.output.result])
  ELSE AddItem(c, [type |-> "ERROR", text |-> "failed", error |-> rec.error])

RunReturns ==
  /\ cmd.pc = "running"
  /\ Settled(CommandRun)
  /\ cmd' = [afterRun(cmd, run[CommandRun]) EXCEPT !.pc = "idle"]
  /\ UNCHANGED <<registryVars, run, aborted, dlg, bus, relayVars, settings, snapshot>>

\* the home directory holds one agent; the project directory is missing,
\* is a file, or holds an agent whose name has a blank
CommandFiles ==
  {[stat |-> "missing", glob |-> <<>>], [stat |-> "file", glob |-> <<>>],
   [stat |-> "dir", glob |-> <<"/p/my agent.md">>]}

InitCommand ==
  /\ RunInit
  /\ DialogInit
  /\ \E config \in BOOLEAN : cmd = [NoCommand EXCEPT !.config = config]
  /\ settings = NoSettings
  /\ projectAgentsDir = ProjectDir
  /\ \E p \in CommandFiles :
       /\ fsStat = [d \in Dirs |-> IF d = UserDir THEN "dir" ELSE p.stat]
       /\ fsGlob = [d \in Dirs |->
                      IF d = UserDir THEN <<"/u/a.md">> ELSE p.glob]
  /\ fsFile = {}
  /\ agents = <<>>
  /\ call = [c \in Calls |-> IdleCall]
  /\ started = 0
  /\ results = <<>>
  /\ lastRead = NoRead
  /\ snapshot = NoSnapshot

NextCommand ==
  \/ ListAction
  \/ StatSettles(CommandCall)
  \/ GlobSettles(CommandCall)
  \/ ParseSettles(CommandCall)
  \/ TierReturns(CommandCall)
  \/ ListReturns
  \/ \E agentName \in CreateNames : CreateAction(agentName)
  \/ \E submittedName \in CreateNames : handleNameSubmit(submittedName)
  \/ \E selectedScope \in {"project", "global"} :
       handleScopeSelect(selectedScope)
  \/ \E selectedMethod \in {"gemini", "manual"} :
       handleMethodSelect(selectedMethod)
  \/ handleDescriptionSubmit
  \/ WorkflowEscape
  \/ MkdirSettles
  \/ WriteFileSettles
  \/ \E agentName \in RunNames, task \in RunTasks : RunAction(agentName, task)
  \/ CreateSettles(CommandRun)
  \/ CommandEmits
  \/ EngineResolves(CommandRun)
  \/ EngineRejects(CommandRun)
  \/ RunReturns

SpecCommand == InitCommand /\ [][NextCommand]_vars

\* the finished and failed items among the items added so far
IsFinalItem(item) ==
  item.type \in {"INFO", "ERROR"} /\ item.text \in {"finished", "failed"}
FinalItems == SelectSeq(cmd.items, IsFinalItem)

\* C29: a run started by /agents run fails with the engine's own error or
\* with the error of create, nothing added; while the run is pending the
\* command has added no final item, and once the command has returned it
\* has added exactly one: the finished item with the result the run
\* returned, or the failed item with the error the run threw.
C29_OneFinalItem ==
  LET rec == run[CommandRun]
  IN /\ (rec.pc = "threw" /\ rec.create = "ok") => rec.error = "engine error"
     /\ (rec.pc = "threw" /\ rec.create = "failed") =>
          rec.error = "create failed"
     /\ (rec.pc = "idle" \/ cmd.pc = "running") => FinalItems = <<>>
     /\ (rec.pc # "idle" /\ cmd.pc # "running") =>
          /\ Settled(CommandRun)
          /\ Len(FinalItems) = 1
          /\ rec.pc = "returned" =>
               FinalItems[1] = [type |-> "INFO", text |-> "finished",
                                result |-> rec.engineOutput.result]
          /\ rec.pc = "threw" =>
               FinalItems[1] = [type |-> "ERROR", text |-> "failed",
                                error |-> rec.error]

\* the engine threw after a tool call was reported and the command has
\* returned
C29_Witness ==
  /\ cmd.pc = "idle"
  /\ run[CommandRun].pc = "threw"
  /\ run[CommandRun].create = "ok"
  /\ "TOOL_CALL_START" \in Range(run[CommandRun].delivered)
  /\ Len(FinalItems) = 1
  /\ FinalItems[1].text = "failed"

\* C30 as stated: every run that was started got a cancellation token of
\* its caller, so whoever started it can cancel it.
C30_TokenPassed ==
  \A r \in Runs : run[r].pc # "idle" => run[r].signal # NoSignal

\* the step is createAction returning with this one item added, no
\* workflow opened and no file written
Refuses(item) ==
  /\ cmd'.items = Append(cmd.items, item)
  /\ cmd'.pc = "idle"
  /\ ~cmd'.workflow.open
  /\ fsFile' = fsFile /\ fsGlob' = fsGlob

\* C25 as stated: /agents create with a name the registry holds reports
\* that the agent already exists, opens no workflow and writes no file;
\* with a name that does not match [a-zA-Z0-9_-]+ it reports the name
\* error, opens no workflow and writes no file.
C25_CreateRefused ==
  [][(cmd'.invocations = cmd.invocations + 1 /\ cmd'.action = "create") =>
       LET agentName == cmd'.agentName
       IN /\ (agentName # "" /\ cmd.config
                             /\ getAgent(agents, agentName) # null) =>
               Refuses([type |-> "WARNING", text |-> "already exists",
                        agentName |-> agentName])
          /\ (agentName # "" /\ ~IsIdentifier(agentName)) =>
               Refuses([type |-> "ERROR", text |-> "invalid name",
                        agentName |-> agentName])]_vars

\* C24 as stated: after an agent was created with the manual method, the
\* next discovery that completes yields a registry with an entry of that
\* name located at the file that was written.
C24_CreatedIsListed ==
  \A i \in 1..Len(cmd.created) :
    LET w == cmd.created[i]
    IN Len(results) > w.discoveries =>
         \E j \in 1..Len(results[w.discoveries + 1]) :
           /\ results[w.discoveries + 1][j].name = w.name
           /\ results[w.discoveries + 1][j].location = w.filePath

\* C37 as stated: in every result passed to onComplete the directory agrees
\* with the scope: the project directory for scope 'project', the user
\* directory for scope 'global', also when the workflow has no storage.
C37_DirectoryOfScope ==
  cmd.result # null =>
    /\ cmd.result.scope = "project" =>
          cmd.result.directoryPath = projectAgentsDir
    /\ cmd.result.scope = "global" => cmd.result.directoryPath = UserDir

\* C38 as stated: creating an agent never overwrites a definition: no file
\* is written at a path that is already a file of an agent directory,
\* whether the name was given as an argument or typed in the wizard and
\* whether or not the registry was refreshed since the file appeared.
C38_NeverOverwrites ==
  [][Len(cmd'.created) = Len(cmd.created) + 1 =>
       cmd'.created[Len(cmd'.created)].filePath
         \notin UNION {Range(fsGlob[d]) : d \in Dirs}]_vars

\* C35 as stated: one creation workflow invokes one terminal callback at
\* most, onComplete or onCancel, so one Escape press at the NAME step
\* invokes onCancel once.
C35_OneTerminalCallback ==
  cmd.workflow.onComplete + cmd.workflow.onCancel <= 1

\* C34: onComplete is called only with a non-empty name that matches
\* [a-zA-Z0-9_-]+; a workflow opened with a name from the command line
\* was given a name that matches; a submission at the NAME step leads to
\* SCOPE only with a name that matches, and one that is rejected leaves
\* the step at NAME with the error shown and the name as it was.
C34_ValidName ==
  /\ [](cmd.result # null =>
          cmd.result.name # "" /\ IsIdentifier(cmd.result.name))
  /\ [](cmd.workflow.open /\ cmd.workflow.initialName # "" =>
          IsIdentifier(cmd.workflow.initialName))
  /\ [][AtStep("NAME") /\ cmd'.workflow.open =>
          \/ /\ cmd'.workflow.currentStep = "SCOPE"
             /\ cmd'.workflow.name # ""
             /\ IsIdentifier(cmd'.workflow.name)
             /\ cmd'.workflow.nameValidationError = ""
          \/ /\ cmd'.workflow.currentStep = "NAME"
             /\ cmd'.workflow.name = cmd.workflow.name
             /\ cmd'.workflow.nameValidationError # ""]_vars

\* the workflow was opened without a name, the name typed at the NAME
\* step was accepted, and the workflow has completed with it
C34_Witness ==
  /\ cmd.result # null
  /\ cmd.workflow.initialName = ""
  /\ cmd.workflow.onComplete = 1
  /\ cmd.result.name = "helper"

\* the first step of a workflow: SCOPE when a name was supplied
FirstStep(w) == IF w.initialName = "" THEN "NAME" ELSE "SCOPE"

\* C36: an open workflow moves one step forward along NAME, SCOPE, METHOD,
\* DESCRIPTION, stays at NAME, or moves one step back, to NAME only when
\* no name was supplied; it is cancelled at its first step only; it
\* completes from METHOD with the manual method and from DESCRIPTION with
\* the Gemini method, and the result carries the name and scope the
\* workflow holds, which are those chosen last.
C36_StepOrder ==
  [][(cmd.pc = "dialog" /\ cmd.workflow.open) =>
       LET w == cmd.workflow
           v == cmd'.workflow
       IN /\ v.open =>
               \/ <<w.currentStep, v.currentStep>> \in
                    {<<"NAME", "NAME">>, <<"NAME", "SCOPE">>,
                     <<"SCOPE", "METHOD">>, <<"METHOD", "DESCRIPTION">>,
                     <<"METHOD", "SCOPE">>, <<"DESCRIPTION", "METHOD">>}
               \/ /\ <<w.currentStep, v.currentStep>> = <<"SCOPE", "NAME">>
                  /\ w.initialName = ""
          /\ v.onCancel > w.onCancel =>
               ~v.open /\ w.currentStep = FirstStep(w)
          /\ v.onComplete > w.onComplete =>
               /\ ~v.open
               /\ cmd'.result.name = w.name
               /\ cmd'.result.scope = w.scope
               /\ \/ w.currentStep = "METHOD" /\ cmd'.result.method = "manual"
                  \/ /\ w.currentStep = "DESCRIPTION"
                     /\ cmd'.result.method = "gemini"
          /\ ~v.open => v.onCancel > w.onCancel \/ v.onComplete > w.onComplete
          /\ (w.currentStep = "SCOPE" /\ v.currentStep = "METHOD") =>
               v.name = w.name
          /\ (w.currentStep = "METHOD" /\ v.open) =>
               v.name = w.name /\ v.scope = w.scope]_vars

\* the user went back from METHOD to the NAME step of a workflow opened
\* without a name, after a name and the global scope were chosen
C36_Witness ==
  /\ AtStep("NAME")
  /\ cmd.workflow.name = "helper"
  /\ cmd.workflow.scope = "global"

\* C40 as stated: for the record of every run the definition run() built
\* and the one metadataToAgentDefinition builds agree in input declaration,
\* system prompt, query, model settings, run limits and tool configuration.
C40_ConversionsAgree ==
  \A r \in Runs :
    run[r].pc # "idle" =>
      LET def == run[r].definition
          other == metadataToAgentDefinition(run[r].metadata)
      IN /\ def.inputConfig = other.inputConfig
         /\ def.promptConfig = other.promptConfig
         /\ def.modelConfig = other.modelConfig
         /\ def.runConfig = other.runConfig
         /\ def.toolConfig = other.toolConfig

(***************************************************************************)
(* /skills disable and /skills enable of skillsCommand.ts on the list      *)
(* settings.merged.skills.disabled.                                        *)
(***************************************************************************)
\* the skills skillManager.getSkill finds, and what follows the command:
\* nothing, a known skill, or the name of a skill that is gone
KnownSkills == {"s1", "s2"}
SkillArgs == {"", "s1", "s2", "old"}
getSkill(skillName) == skillName \in KnownSkills

\* Array.prototype.includes
Includes(list, x) == \E i \in 1..Len(list) : list[i] = x

\* settings.setValue(scope, 'skills.disabled', newDisabled): the merged
\* list is the list that was set
setValue(st, scope, newDisabled) ==
  [st EXCEPT !.disabled = newDisabled,
             !.setValue = Append(@, [scope |-> scope, value |-> newDisabled])]

\* settings.workspace.path ? SettingScope.Workspace : SettingScope.User
scopeOf(st) == IF st.workspacePath THEN "Workspace" ELSE "User"

\* variant: the name is appended whether or not the list holds it
disableAction_append(st, skillName) ==
  IF skillName = "" \/ ~getSkill(skillName) THEN st
  ELSE setValue(st, scopeOf(st), Append(st.disabled, skillName))

\* disableAction(context, args)
disableAction(st, skillName) ==
  IF skillName = "" THEN st
  ELSE IF ~getSkill(skillName) THEN st
  ELSE IF Includes(st.disabled, skillName) THEN st
  ELSE setValue(st, scopeOf(st), Append(st.disabled, skillName))

\* enableAction(context, args)
enableAction(st, skillName) ==
  IF skillName = "" THEN st
  ELSE IF ~Includes(st.disabled, skillName) THEN st
  ELSE setValue(st, scopeOf(st),
                SelectSeq(st.disabled, LAMBDA name : name # skillName))

\* the command is entered: what it was and what the settings were before
\* and after it are logged
SkillCommand(action, skillName, after) ==
  /\ Len(settings.log) < MaxSkillCommands
  /\ settings' =
       [after EXCEPT !.log =
          Append(@, [action |-> action, skillName |-> skillName,
                     before |-> settings.disabled,
                     after |-> after.disabled,
                     wrote |-> after.setValue # settings.setValue])]
  /\ UNCHANGED <<registryVars, run, aborted, dlg, bus, relayVars, cmd, snapshot>>

DisableAction(skillName) ==
  SkillCommand("disable", skillName, disableAction(settings, skillName))

EnableAction(skillName) ==
  SkillCommand("enable", skillName, enableAction(settings, skillName))

NoDuplicates(list) ==
  \A i, j \in 1..Len(list) : i # j => list[i] # list[j]

\* the disabled lists without duplicates of at most two names
DisabledLists ==
  {l \in UNION {[1..n -> SkillArgs \ {""}] : n \in 0..2} : NoDuplicates(l)}

InitSkills ==
  /\ QuietRegistry
  /\ RunInit
  /\ DialogInit
  /\ cmd = NoCommand
  /\ \E l \in DisabledLists, w \in BOOLEAN :
       settings = [disabled |-> l, setValue |-> <<>>, log |-> <<>>,
                   workspacePath |-> w]

NextSkills ==
  \/ \E skillName \in SkillArgs : DisableAction(skillName)
  \/ \E skillName \in SkillArgs : EnableAction(skillName)

SpecSkills == InitSkills /\ [][NextSkills]_vars

\* the commands that must leave the settings alone did so
LeftUnchanged ==
  \A i \in 1..Len(settings.log) :
    LET e == settings.log[i]
    IN ((e.action = "disable" /\ (\/ e.skillName = ""
                                  \/ ~getSkill(e.skillName)
                                  \/ Includes(e.before, e.skillName)))
        \/ (e.action = "enable" /\ (\/ e.skillName = ""
                                    \/ ~Includes(e.before, e.skillName))))
       => e.after = e.before /\ ~e.wrote

\* C39 as stated: the disabled list never holds a name twice, the commands
\* that must leave the settings alone do so, and disable X followed by
\* enable X restores the list that held before the two.
C39_AsStated ==
  /\ NoDuplicates(settings.disabled)
  /\ LeftUnchanged
  /\ \A i \in 1..(Len(settings.log) - 1) :
       (/\ settings.log[i].action = "disable"
        /\ settings.log[i + 1].action = "enable"
        /\ settings.log[i + 1].skillName = settings.log[i].skillName)
       => settings.log[i + 1].after = settings.log[i].before

\* C39: the disabled list never holds a name twice, the commands that must
\* leave the settings alone do so, and a disable X that changed the list
\* followed by enable X restores the list that held before the two.
C39_DisableEnable ==
  /\ NoDuplicates(settings.disabled)
  /\ LeftUnchanged
  /\ \A i \in 1..(Len(settings.log) - 1) :
       (/\ settings.log[i].action = "disable"
        /\ settings.log[i].wrote
        /\ settings.log[i + 1].action = "enable"
        /\ settings.log[i + 1].skillName = settings.log[i].skillName)
       => settings.log[i + 1].after = settings.log[i].before

\* a skill was disabled on top of another one and enabled again
C39_Witness ==
  /\ Len(settings.log) >= 2
  /\ \E i \in 1..(Len(settings.log) - 1) :
       /\ settings.log[i].action = "disable"
       /\ settings.log[i].wrote
       /\ settings.log[i].before # <<>>
       /\ settings.log[i + 1].action = "enable"
       /\ settings.log[i + 1].skillName = settings.log[i].skillName
       /\ settings.log[i + 1].wrote

(***************************************************************************)
(* Two discoverAgents() calls on one manager, interleaved at their awaits. *)
(***************************************************************************)
NextRace ==
  \E c \in Calls :
    \/ DiscoverAgents(c)
    \/ StatSettles(c)
    \/ GlobSettles(c)
    \/ ParseSettles(c)
    \/ TierReturns(c)

SpecRace == Init /\ [][NextRace]_vars

AfterClear_truncate(snap) ==
  IF snap.aliased THEN [snap EXCEPT !.now = <<>>] ELSE snap

\* clearAgents(): this.agents = [] leaves the old array as it is and makes
\* a new one the manager's
AfterClear(snap) == [snap EXCEPT !.aliased = FALSE]

\* variant: the entries are written into the array the manager has
AfterMerge_inPlace(snap, list) ==
  IF snap.aliased THEN [snap EXCEPT !.now = list] ELSE snap

\* addAgentsWithPrecedence: this.agents = Array.from(agentMap.values())
\* makes a new array the manager's
AfterMerge(snap, list) == [snap EXCEPT !.aliased = FALSE]

Untouched == <<run, aborted, dlg, bus, relayVars, cmd, settings>>

HoldDiscover(c) ==
  /\ discoverAgents(c)
  /\ snapshot' = AfterClear(snapshot)
  /\ UNCHANGED Untouched

HoldTierReturns(c) ==
  /\ tierReturns(c)
  /\ snapshot' = AfterMerge(snapshot, agents')
  /\ UNCHANGED Untouched

HoldClear ==
  /\ clearAgentsCalled
  /\ snapshot' = AfterClear(snapshot)
  /\ UNCHANGED Untouched

\* getAllAgents() returns this.agents itself
HoldAll ==
  /\ snapshot.op = "none"
  /\ snapshot' = [op |-> "getAllAgents", taken |-> getAllAgents(agents),
                  now |-> getAllAgents(agents), aliased |-> TRUE]
  /\ UNCHANGED <<registryVars, Untouched>>

\* getAgents() returns the array filter made
HoldEnabled ==
  /\ snapshot.op = "none"
  /\ snapshot' = [op |-> "getAgents", taken |-> getAgents(agents),
                  now |-> getAgents(agents), aliased |-> FALSE]
  /\ UNCHANGED <<registryVars, Untouched>>

\* getAgent(name) returns an entry of the list, or null
HoldEntry(name) ==
  /\ snapshot.op = "none"
  /\ snapshot' = [op |-> "getAgent", taken |-> getAgent(agents, name),
                  now |-> getAgent(agents, name), aliased |-> FALSE]
  /\ UNCHANGED <<registryVars, Untouched>>

NextSnapshot ==
  \/ \E c \in SeqCalls : HoldDiscover(c)
  \/ \E c \in SeqCalls : StatSettles(c)
  \/ \E c \in SeqCalls : GlobSettles(c)
  \/ \E c \in SeqCalls : ParseSettles(c)
  \/ \E c \in SeqCalls : HoldTierReturns(c)
  \/ HoldClear
  \/ HoldAll
  \/ HoldEnabled
  \/ \E name \in Names : HoldEntry(name)

SpecSnapshot == Init /\ [][NextSnapshot]_vars

\* C33: what a reader was given holds what it held when it was returned,
\* whatever discoverAgents() and clearAgents() calls came later.
C33_StableSnapshot == snapshot.op # "none" => snapshot.now = snapshot.taken

\* the whole list was taken when it held two entries, and the registry has
\* been replaced since
C33_Witness ==
  /\ snapshot.op = "getAllAgents"
  /\ Len(snapshot.taken) = 2
  /\ ~snapshot.aliased
  /\ agents # snapshot.taken
====
